---- MODULE Spec2Model ----
(***************************************************************************)
(* Verification model of the design_patterns teaching corpus.              *)
(*                                                                         *)
(* Every example of the repository is an independent, single-threaded      *)
(* script, so every family of examples gets its own specification; the     *)
(* variables of the other families keep their initial value.               *)
(*                                                                         *)
(*   SpecVending     6_state/1_vending_machine, any sequence of calls      *)
(*   SpecVendingRun  the same machine, with the log of the calls made      *)
(*                   since construction (at most MaxCalls calls)           *)
(*   SpecObserver    3_observer: StockPrice, WeatherStation and            *)
(*                   YoutubeChannel; a run is a run of one of the three    *)
(*                                                                         *)
(* Money is counted in cents.  Every amount of the model is a multiple of  *)
(* 50 cents, which a Python float represents exactly, so the float         *)
(* arithmetic of the source (+=, -, >=) is exact on these values.          *)
(*                                                                         *)
(* A Python call either returns or raises: `raised` holds the exception    *)
(* the most recent call raised ("none" when it returned), `out` the lines  *)
(* it printed and `last` the call itself.                                  *)
(***************************************************************************)
EXTENDS Integers, Sequences, FiniteSets, TLC

VARIABLES
    \* ---- the most recent call, shared by all examples
    last,              \* the most recent public call
    out,               \* lines printed by the most recent call
    raised,            \* exception raised by the most recent call, or "none"
    \* ---- VendingMachine (6_state/1_vending_machine)
    state,             \* VendingMachine._state, by class name
    money,             \* VendingMachine._money, in cents
    selected_product,  \* VendingMachine._selected_product, or None
    products,          \* VendingMachine._products: name -> [price, stock]
    calls,             \* SpecVendingRun: the calls made since construction
    trail,             \* SpecVendingRun: the active state, initially and after each call
    \* ---- the observer subjects (3_observer)
    observers,         \* StockPrice._observers / WeatherStation._observers
    price,             \* StockPrice._price
    previous_price,    \* StockPrice._previous_price
    temperature,       \* WeatherStation._temperature
    humidity,          \* WeatherStation._humidity
    pressure,          \* WeatherStation._pressure
    subscribers,       \* YoutubeChannel._subscribers
    videos,            \* YoutubeChannel._videos
    updates            \* the update() calls the most recent call made, in order

VARIABLES
    \* ---- more about the most recent call, shared by all examples
    result,            \* the value the most recent call returned
    effects,           \* the calls the most recent call made on other objects, in order
    \* ---- MusicPlayer (6_state/1_music_player)
    player_state,      \* MusicPlayer._state, by class name
    playing,           \* MusicPlayer._playing
    current_track,     \* MusicPlayer._current_track
    clicks,            \* the clicks made since construction
    \* ---- TrafficLight (6_state/2_traffic_light)
    light_state,       \* TrafficLight._state, by class name
    cycle_count,       \* TrafficLight._cycle_count
    changes,           \* the number of set_state calls since construction
    \* ---- PaymentProcessor / DataSorter (1_strategy)
    strategy,          \* PaymentProcessor._strategy / DataSorter._strategy, or None
    \* ---- the decorator chains (2_decorator)
    beverage,          \* the add-ons wrapped around Espresso(), innermost first
    handler,           \* the middleware wrapped around RequestHandler(), innermost first
    \* ---- the adapters (4_adapter)
    client_call,       \* the call the client code makes on the target interface
    message,           \* the argument of the exception raised by that call, or None
    \* ---- the factories (5_factory)
    apps,              \* the Application objects built so far, in order
    \* ---- the composites (7_composite)
    children,          \* Folder._children / Department._members, by composite
    \* ---- the template methods (8_template_method)
    runs,              \* the objects whose template method has run, in order
    \* ---- the database connections (5_factory/2_database_connections)
    connected,         \* MySQLConnection._connected, ..., by connection
    lifecycle          \* the most recent of connect and close called on the connection

\* the script this run is a run of
VARIABLE example

callVars == <<last, out, raised>>
returnVars == <<result, effects>>
musicVars == <<player_state, playing, current_track, clicks>>
trafficVars == <<light_state, cycle_count, changes>>
strategyVars == <<strategy>>
decoratorVars == <<beverage, handler>>
adapterVars == <<client_call, message>>
factoryVars == <<apps>>
compositeVars == <<children>>
templateVars == <<runs>>
databaseVars == <<connected, lifecycle>>
observerVars == <<observers, price, previous_price, temperature, humidity,
                  pressure, subscribers, videos, updates>>
vendingVars == <<state, money, selected_product, products, calls, trail>>

----------------------------------------------------------------------------
(* Bounds *)

\* VendingMachine: insert_money is not taken beyond this amount of held
\* money, counted in half dollars
MaxMoney == 8
\* SpecVendingRun: number of calls made on the machine
MaxCalls == 4
\* YoutubeChannel: attach is not taken beyond this length of the subscriber list
MaxSubscribers == 3
\* YoutubeChannel: upload_video is not taken beyond this number of videos
MaxVideos == 2
\* MusicPlayer: number of clicks made on the player
MaxClicks == 6
\* coffee shop: number of decorators wrapped around an Espresso
MaxWraps == 3
\* coffee shop: largest `teaspoons` argument of SugarDecorator
MaxTeaspoons == 3
\* middleware: number of middleware layers wrapped around the RequestHandler
MaxLayers == 3
\* payment gateway: largest amount paid, in cents, beside the script's amounts
MaxCents == 60
\* UI components: number of Application objects built
MaxApps == 2
\* media player: longest type tag handed to AudioPlayer.play
MaxTagLen == 3
\* DataSorter: longest list handed to sort_data
MaxLen == 4
\* TrafficLight: largest `cycles` argument of start
MaxCycles == 3
\* TrafficLight: no call is made that takes the light beyond this number of
\* state changes
MaxChanges == 18
\* Folder / Department: add is not called when the child lists hold this
\* many entries in all
MaxChildren == 3
\* Recipe / BuildProcess: number of template method runs
MaxRuns == 3

----------------------------------------------------------------------------
(* Shared helpers *)

\* Python None, where a str is expected
None == "None"

\* a public call: the method and the tuple of its arguments
Call(op, args) == [op |-> op, args |-> args]

NoCall == Call("none", <<>>)

\* c is the call of method op with arguments args
IsCall(c, op, args) == c.op = op /\ c.args = args

\* the elements of a list
Range(list) == {list[i] : i \in 1..Len(list)}

\* one printed line: the message, and the product and amount formatted into it
Line(msg, product, amount) == [msg |-> msg, product |-> product, amount |-> amount]

----------------------------------------------------------------------------
(* 6_state/1_vending_machine *)

\* amounts a customer inserts (cents)
Amounts == {50, 100, 200}
\* product names a customer asks for; "Gum" is not sold by the machine
ProductNames == {"Coke", "Pepsi", "Chips", "Candy", "Gum"}

\* VendingMachine.__init__: the price table and the initial stock
InitialProducts ==
    [p \in {"Coke", "Pepsi", "Chips", "Candy"} |->
        CASE p = "Coke"  -> [price |-> 150, stock |-> 5]
          [] p = "Pepsi" -> [price |-> 150, stock |-> 3]
          [] p = "Chips" -> [price |-> 200, stock |-> 4]
          [] p = "Candy" -> [price |-> 100, stock |-> 0]]

\* VendingMachine.get_product_price: <<price>>, or <<>> for Python's None
get_product_price(product) ==
    IF product \in DOMAIN products THEN <<products[product].price>> ELSE <<>>

\* VendingMachine.has_product
has_product(product) ==
    IF product \in DOMAIN products THEN products[product].stock > 0 ELSE FALSE

\* VendingMachine.remove_product: the value of _products after the call
remove_product(product) ==
    IF product \in DOMAIN products
    THEN [products EXCEPT ![product].stock = @ - 1]
    ELSE products

machineVars == <<state, money, selected_product, products>>

\* ---- NoMoneyState
NoMoneyState_insert_money(amount) ==
    /\ out' = <<Line("Inserted", None, amount)>>
    /\ money' = money + amount
    /\ state' = "HasMoneyState"
    /\ raised' = "none"
    /\ UNCHANGED <<selected_product, products>>

NoMoneyState_eject_money ==
    /\ out' = <<Line("No money to eject", None, 0)>>
    /\ raised' = "none"
    /\ UNCHANGED machineVars

NoMoneyState_select_product(product) ==
    /\ out' = <<Line("Please insert money first", None, 0)>>
    /\ raised' = "none"
    /\ UNCHANGED machineVars

NoMoneyState_dispense ==
    /\ out' = <<Line("Please insert money first", None, 0)>>
    /\ raised' = "none"
    /\ UNCHANGED machineVars

\* ---- HasMoneyState
HasMoneyState_insert_money(amount) ==
    /\ out' = <<Line("Inserted additional", None, amount)>>
    /\ money' = money + amount
    /\ raised' = "none"
    /\ UNCHANGED <<state, selected_product, products>>

HasMoneyState_eject_money ==
    /\ out' = <<Line("Ejecting", None, money)>>
    /\ money' = 0
    /\ state' = "NoMoneyState"
    /\ raised' = "none"
    /\ UNCHANGED <<selected_product, products>>

\* variant: the price is compared without the None check; `money >= None`
\* raises TypeError
HasMoneyState_select_product_unchecked(product) ==
    LET unit_price == get_product_price(product) IN
    IF unit_price = <<>>
    THEN /\ out' = <<>>
         /\ raised' = "TypeError"
         /\ UNCHANGED machineVars
    ELSE IF money >= unit_price[1]
    THEN /\ out' = <<Line("Selected", product, unit_price[1])>>
         /\ selected_product' = product
         /\ state' = "SoldState"
         /\ raised' = "none"
         /\ UNCHANGED <<money, products>>
    ELSE /\ out' = <<Line("Insufficient funds. Need more", None, unit_price[1] - money)>>
         /\ raised' = "none"
         /\ UNCHANGED machineVars

\* variant: a known product is selected whatever money is held
HasMoneyState_select_product_on_credit(product) ==
    LET unit_price == get_product_price(product) IN
    IF unit_price = <<>>
    THEN /\ out' = <<Line("not available", product, 0)>>
         /\ raised' = "none"
         /\ UNCHANGED machineVars
    ELSE /\ out' = <<Line("Selected", product, unit_price[1])>>
         /\ selected_product' = product
         /\ state' = "SoldState"
         /\ raised' = "none"
         /\ UNCHANGED <<money, products>>

\* variant: a customer who cannot pay gets the partial funds back
HasMoneyState_select_product_refund(product) ==
    LET unit_price == get_product_price(product) IN
    IF unit_price = <<>>
    THEN /\ out' = <<Line("not available", product, 0)>>
         /\ raised' = "none"
         /\ UNCHANGED machineVars
    ELSE IF money >= unit_price[1]
    THEN /\ out' = <<Line("Selected", product, unit_price[1])>>
         /\ selected_product' = product
         /\ state' = "SoldState"
         /\ raised' = "none"
         /\ UNCHANGED <<money, products>>
    ELSE /\ out' = <<Line("Insufficient funds. Need more", None, unit_price[1] - money)>>
         /\ money' = 0
         /\ state' = "NoMoneyState"
         /\ raised' = "none"
         /\ UNCHANGED <<selected_product, products>>

HasMoneyState_select_product(product) ==
    LET unit_price == get_product_price(product) IN
    IF unit_price = <<>>
    THEN /\ out' = <<Line("not available", product, 0)>>
         /\ raised' = "none"
         /\ UNCHANGED machineVars
    ELSE IF money >= unit_price[1]
    THEN /\ out' = <<Line("Selected", product, unit_price[1])>>
         /\ selected_product' = product
         /\ state' = "SoldState"
         /\ raised' = "none"
         /\ UNCHANGED <<money, products>>
    ELSE /\ out' = <<Line("Insufficient funds. Need more", None, unit_price[1] - money)>>
         /\ raised' = "none"
         /\ UNCHANGED machineVars

HasMoneyState_dispense ==
    /\ out' = <<Line("Please select a product first", None, 0)>>
    /\ raised' = "none"
    /\ UNCHANGED machineVars

\* ---- SoldState
\* variant: money inserted while the order is processed is credited
SoldState_insert_money_credit(amount) ==
    /\ out' = <<Line("Please wait, processing your order", None, 0)>>
    /\ money' = money + amount
    /\ raised' = "none"
    /\ UNCHANGED <<state, selected_product, products>>

SoldState_insert_money(amount) ==
    /\ out' = <<Line("Please wait, processing your order", None, 0)>>
    /\ raised' = "none"
    /\ UNCHANGED machineVars

SoldState_eject_money ==
    /\ out' = <<Line("Cannot eject money, product already selected", None, 0)>>
    /\ raised' = "none"
    /\ UNCHANGED machineVars

SoldState_select_product(product) ==
    /\ out' = <<Line("Please wait, processing your order", None, 0)>>
    /\ raised' = "none"
    /\ UNCHANGED machineVars

\* variant: the selection is not cleared after the product is dispensed
SoldState_dispense_keep_selection ==
    LET product == selected_product
        unit_price == get_product_price(product)
    IN
    IF has_product(product)
    THEN IF unit_price = <<>>
         THEN /\ out' = <<Line("Dispensing", product, 0)>>
              /\ products' = remove_product(product)
              /\ raised' = "TypeError"
              /\ UNCHANGED <<state, money, selected_product>>
         ELSE LET change == money - unit_price[1] IN
              /\ out' = <<Line("Dispensing", product, 0)>> \o
                        (IF change > 0
                         THEN <<Line("Returning change", None, change)>>
                         ELSE <<>>)
              /\ products' = remove_product(product)
              /\ money' = 0
              /\ state' = "NoMoneyState"
              /\ raised' = "none"
              /\ UNCHANGED selected_product
    ELSE /\ out' = <<Line("is out of stock", product, 0)>>
         /\ state' = "NoMoneyState"
         /\ raised' = "none"
         /\ UNCHANGED <<money, selected_product, products>>

\* variant: the product is handed out without a look at the stock
SoldState_dispense_unchecked ==
    LET product == selected_product
        unit_price == get_product_price(product)
    IN
    IF product \in DOMAIN products
    THEN IF unit_price = <<>>
         THEN /\ out' = <<Line("Dispensing", product, 0)>>
              /\ products' = remove_product(product)
              /\ raised' = "TypeError"
              /\ UNCHANGED <<state, money, selected_product>>
         ELSE LET change == money - unit_price[1] IN
              /\ out' = <<Line("Dispensing", product, 0)>> \o
                        (IF change > 0
                         THEN <<Line("Returning change", None, change)>>
                         ELSE <<>>)
              /\ products' = remove_product(product)
              /\ money' = 0
              /\ selected_product' = None
              /\ state' = "NoMoneyState"
              /\ raised' = "none"
    ELSE /\ out' = <<Line("is out of stock", product, 0)>>
         /\ state' = "NoMoneyState"
         /\ raised' = "none"
         /\ UNCHANGED <<money, selected_product, products>>

\* variant: the machine goes to SoldOutState once the last product is gone
SoldState_dispense_sold_out ==
    LET product == selected_product
        unit_price == get_product_price(product)
    IN
    IF has_product(product)
    THEN IF unit_price = <<>>
         THEN /\ out' = <<Line("Dispensing", product, 0)>>
              /\ products' = remove_product(product)
              /\ raised' = "TypeError"
              /\ UNCHANGED <<state, money, selected_product>>
         ELSE LET change == money - unit_price[1] IN
              /\ out' = <<Line("Dispensing", product, 0)>> \o
                        (IF change > 0
                         THEN <<Line("Returning change", None, change)>>
                         ELSE <<>>)
              /\ products' = remove_product(product)
              /\ money' = 0
              /\ selected_product' = None
              /\ state' = (IF \A q \in DOMAIN products : remove_product(product)[q].stock = 0
                             THEN "SoldOutState" ELSE "NoMoneyState")
              /\ raised' = "none"
    ELSE /\ out' = <<Line("is out of stock", product, 0)>>
         /\ state' = "NoMoneyState"
         /\ raised' = "none"
         /\ UNCHANGED <<money, selected_product, products>>

\* `money - price` raises TypeError when the price is None; remove_product has
\* already run by then
SoldState_dispense ==
    LET product == selected_product
        unit_price == get_product_price(product)
    IN
    IF has_product(product)
    THEN IF unit_price = <<>>
         THEN /\ out' = <<Line("Dispensing", product, 0)>>
              /\ products' = remove_product(product)
              /\ raised' = "TypeError"
              /\ UNCHANGED <<state, money, selected_product>>
         ELSE LET change == money - unit_price[1] IN
              /\ out' = <<Line("Dispensing", product, 0)>> \o
                        (IF change > 0
                         THEN <<Line("Returning change", None, change)>>
                         ELSE <<>>)
              /\ products' = remove_product(product)
              /\ money' = 0
              /\ selected_product' = None
              /\ state' = "NoMoneyState"
              /\ raised' = "none"
    ELSE /\ out' = <<Line("is out of stock", product, 0)>>
         /\ state' = "NoMoneyState"
         /\ raised' = "none"
         /\ UNCHANGED <<money, selected_product, products>>

\* ---- SoldOutState
SoldOutState_insert_money(amount) ==
    /\ out' = <<Line("Machine is out of products", None, 0)>>
    /\ raised' = "none"
    /\ UNCHANGED machineVars

SoldOutState_eject_money ==
    /\ out' = (IF money > 0 THEN <<Line("Ejecting", None, money)>> ELSE <<>>)
    /\ money' = (IF money > 0 THEN 0 ELSE money)
    /\ state' = "NoMoneyState"
    /\ raised' = "none"
    /\ UNCHANGED <<selected_product, products>>

SoldOutState_select_product(product) ==
    /\ out' = <<Line("Machine is out of products", None, 0)>>
    /\ raised' = "none"
    /\ UNCHANGED machineVars

SoldOutState_dispense ==
    /\ out' = <<Line("Machine is out of products", None, 0)>>
    /\ raised' = "none"
    /\ UNCHANGED machineVars

\* ---- VendingMachine: the four public operations delegate to the active state
VendingMachine_insert_money(amount) ==
    /\ CASE state = "NoMoneyState"  -> NoMoneyState_insert_money(amount)
         [] state = "HasMoneyState" -> HasMoneyState_insert_money(amount)
         [] state = "SoldState"     -> SoldState_insert_money(amount)
         [] state = "SoldOutState"  -> SoldOutState_insert_money(amount)
    /\ last' = Call("insert_money", <<amount>>)

VendingMachine_eject_money ==
    /\ CASE state = "NoMoneyState"  -> NoMoneyState_eject_money
         [] state = "HasMoneyState" -> HasMoneyState_eject_money
         [] state = "SoldState"     -> SoldState_eject_money
         [] state = "SoldOutState"  -> SoldOutState_eject_money
    /\ last' = Call("eject_money", <<>>)

VendingMachine_select_product(product) ==
    /\ CASE state = "NoMoneyState"  -> NoMoneyState_select_product(product)
         [] state = "HasMoneyState" -> HasMoneyState_select_product(product)
         [] state = "SoldState"     -> SoldState_select_product(product)
         [] state = "SoldOutState"  -> SoldOutState_select_product(product)
    /\ last' = Call("select_product", <<product>>)

VendingMachine_dispense ==
    /\ CASE state = "NoMoneyState"  -> NoMoneyState_dispense
         [] state = "HasMoneyState" -> HasMoneyState_dispense
         [] state = "SoldState"     -> SoldState_dispense
         [] state = "SoldOutState"  -> SoldOutState_dispense
    /\ last' = Call("dispense", <<>>)

\* VendingMachine.__init__
VendingInit ==
    /\ state = "NoMoneyState"
    /\ money = 0
    /\ selected_product = None
    /\ products = InitialProducts
    /\ calls = <<>>
    /\ trail = <<"NoMoneyState">>

----------------------------------------------------------------------------
(* 3_observer: StockPrice, WeatherStation, YoutubeChannel                   *)
(*                                                                         *)
(* An observer is an object without __eq__, so `in` and list.remove        *)
(* compare by identity: observers are modelled by their names.  An         *)
(* update() call is recorded in `updates` with the data handed to it; the  *)
(* observers of the examples only print and keep private statistics.       *)

\* Python `x in list`
Contains(list, x) == \E i \in 1..Len(list) : list[i] = x

\* variant: swap-remove, the last element takes the place of the removed one
ListRemoveSwap(list, x) ==
    LET i == CHOOSE k \in 1..Len(list) :
                 list[k] = x /\ \A j \in 1..(k - 1) : list[j] # x
        n == Len(list)
    IN  IF i = n THEN SubSeq(list, 1, n - 1)
        ELSE SubSeq(list, 1, i - 1) \o <<list[n]>> \o SubSeq(list, i + 1, n - 1)

\* Python list.remove(x) when x is in the list: the first occurrence goes
ListRemove(list, x) ==
    LET i == CHOOSE k \in 1..Len(list) :
                 list[k] = x /\ \A j \in 1..(k - 1) : list[j] # x
    IN  SubSeq(list, 1, i - 1) \o SubSeq(list, i + 1, Len(list))

\* one update() call
Update(observer, data) == [observer |-> observer, data |-> data]

\* `for observer in list: observer.update(data)`
UpdateEach(list, data) == [i \in 1..Len(list) |-> Update(list[i], data)]

\* ---- StockPrice (1_stock_market)
StockSymbol == "AAPL"
StockObservers == {"trader1", "trader2", "analyst"}
StockPrices == {148, 150, 155}

stockVars == <<price, previous_price>>
weatherVars == <<temperature, humidity, pressure>>
youtubeVars == <<subscribers, videos>>

\* variant: attach without the membership test
StockPrice_attach_always(observer) ==
    /\ observers' = Append(observers, observer)
    /\ out' = <<Line("subscribed to", observer, 0)>>
    /\ updates' = <<>>
    /\ raised' = "none"
    /\ last' = Call("attach", <<observer>>)
    /\ UNCHANGED <<stockVars, weatherVars, youtubeVars>>

StockPrice_attach(observer) ==
    /\ IF ~Contains(observers, observer)
       THEN /\ observers' = Append(observers, observer)
            /\ out' = <<Line("subscribed to", observer, 0)>>
       ELSE /\ out' = <<>>
            /\ UNCHANGED observers
    /\ updates' = <<>>
    /\ raised' = "none"
    /\ last' = Call("attach", <<observer>>)
    /\ UNCHANGED <<stockVars, weatherVars, youtubeVars>>

StockPrice_detach(observer) ==
    /\ IF Contains(observers, observer)
       THEN /\ observers' = ListRemove(observers, observer)
            /\ out' = <<Line("unsubscribed from", observer, 0)>>
       ELSE /\ out' = <<>>
            /\ UNCHANGED observers
    /\ updates' = <<>>
    /\ raised' = "none"
    /\ last' = Call("detach", <<observer>>)
    /\ UNCHANGED <<stockVars, weatherVars, youtubeVars>>

\* the update() calls of StockPrice.notify when the fields hold p and prev
StockPrice_notify_updates(p, prev) ==
    LET change == p - prev IN
    UpdateEach(observers, <<StockSymbol, p, change>>)

StockPrice_notify ==
    /\ updates' = StockPrice_notify_updates(price, previous_price)
    /\ out' = <<>>
    /\ raised' = "none"
    /\ last' = Call("notify", <<>>)
    /\ UNCHANGED <<observers, stockVars, weatherVars, youtubeVars>>

\* variant: the observers are notified before the fields are updated
StockPrice_set_price_notify_first(new_price) ==
    /\ IF new_price # price
       THEN /\ updates' = StockPrice_notify_updates(price, previous_price)
            /\ previous_price' = price
            /\ price' = new_price
            /\ out' = <<Line("price changed", StockSymbol, new_price)>>
       ELSE /\ out' = <<>>
            /\ updates' = <<>>
            /\ UNCHANGED stockVars
    /\ raised' = "none"
    /\ last' = Call("set_price", <<new_price>>)
    /\ UNCHANGED <<observers, weatherVars, youtubeVars>>

StockPrice_set_price(new_price) ==
    /\ IF new_price # price
       THEN /\ previous_price' = price
            /\ price' = new_price
            /\ out' = <<Line("price changed", StockSymbol, new_price)>>
            /\ updates' = StockPrice_notify_updates(new_price, price)
       ELSE /\ out' = <<>>
            /\ updates' = <<>>
            /\ UNCHANGED stockVars
    /\ raised' = "none"
    /\ last' = Call("set_price", <<new_price>>)
    /\ UNCHANGED <<observers, weatherVars, youtubeVars>>

\* ---- WeatherStation (2_weather_station); measurements in tenths
WeatherObservers == {"current_display", "stats_display", "forecast_display"}
Temperatures == {250, 380}
Humidities == {650, 850}
Pressures == {10132}
\* values of datetime.now()
Timestamps == {1, 2}

WeatherStation_attach(observer) ==
    /\ IF ~Contains(observers, observer)
       THEN /\ observers' = Append(observers, observer)
            /\ out' = <<Line("subscribed to weather updates", observer, 0)>>
       ELSE /\ out' = <<>>
            /\ UNCHANGED observers
    /\ updates' = <<>>
    /\ raised' = "none"
    /\ last' = Call("attach", <<observer>>)
    /\ UNCHANGED <<stockVars, weatherVars, youtubeVars>>

WeatherStation_detach(observer) ==
    /\ IF Contains(observers, observer)
       THEN /\ observers' = ListRemove(observers, observer)
            /\ out' = <<Line("unsubscribed from weather updates", observer, 0)>>
       ELSE /\ out' = <<>>
            /\ UNCHANGED observers
    /\ updates' = <<>>
    /\ raised' = "none"
    /\ last' = Call("detach", <<observer>>)
    /\ UNCHANGED <<stockVars, weatherVars, youtubeVars>>

\* the update() calls of WeatherStation.notify when the fields hold t, h, p
\* and datetime.now() returns now: one dict, handed to every observer
WeatherStation_notify_updates(t, h, p, now) ==
    LET data == [temperature |-> t, humidity |-> h, pressure |-> p,
                 timestamp |-> now]
    IN  UpdateEach(observers, data)

WeatherStation_notify ==
    /\ \E now \in Timestamps :
          updates' = WeatherStation_notify_updates(temperature, humidity, pressure, now)
    /\ out' = <<>>
    /\ raised' = "none"
    /\ last' = Call("notify", <<>>)
    /\ UNCHANGED <<observers, stockVars, weatherVars, youtubeVars>>

\* variant: observers are told only of measurements that differ from the last
WeatherStation_set_measurements_if_changed(t, h, p) ==
    /\ temperature' = t
    /\ humidity' = h
    /\ pressure' = p
    /\ out' = <<Line("New measurements received", None, 0),
                Line("Temperature, Humidity, Pressure", None, t)>>
    /\ IF <<t, h, p>> # <<temperature, humidity, pressure>>
       THEN \E now \in Timestamps :
               updates' = WeatherStation_notify_updates(t, h, p, now)
       ELSE updates' = <<>>
    /\ raised' = "none"
    /\ last' = Call("set_measurements", <<t, h, p>>)
    /\ UNCHANGED <<observers, stockVars, youtubeVars>>

WeatherStation_set_measurements(t, h, p) ==
    /\ temperature' = t
    /\ humidity' = h
    /\ pressure' = p
    /\ out' = <<Line("New measurements received", None, 0),
                Line("Temperature, Humidity, Pressure", None, t)>>
    /\ \E now \in Timestamps :
          updates' = WeatherStation_notify_updates(t, h, p, now)
    /\ raised' = "none"
    /\ last' = Call("set_measurements", <<t, h, p>>)
    /\ UNCHANGED <<observers, stockVars, youtubeVars>>

\* ---- YoutubeChannel (2_youtube_channel)
ChannelName == "TechDaily"
Subscribers == {"alice", "bob", "charlie"}
Titles == {"Observer Pattern Explained", "Python Design Patterns Tutorial"}

YoutubeChannel_attach(observer) ==
    /\ out' = <<Line("Attached a new subscriber", ChannelName, 0)>>
    /\ subscribers' = Append(subscribers, observer)
    /\ updates' = <<>>
    /\ raised' = "none"
    /\ last' = Call("attach", <<observer>>)
    /\ UNCHANGED <<observers, videos, stockVars, weatherVars>>

\* list.remove(x) raises ValueError when x is not in the list
YoutubeChannel_detach(observer) ==
    /\ out' = <<Line("Detached a subscriber", ChannelName, 0)>>
    /\ IF Contains(subscribers, observer)
       THEN /\ subscribers' = ListRemove(subscribers, observer)
            /\ raised' = "none"
       ELSE /\ raised' = "ValueError"
            /\ UNCHANGED subscribers
    /\ updates' = <<>>
    /\ last' = Call("detach", <<observer>>)
    /\ UNCHANGED <<observers, videos, stockVars, weatherVars>>

YoutubeChannel_notify(video_title) ==
    /\ out' = <<Line("Notifying subscribers", ChannelName, Len(subscribers))>>
    /\ updates' = UpdateEach(subscribers, <<ChannelName, video_title>>)
    /\ raised' = "none"
    /\ last' = Call("notify", <<video_title>>)
    /\ UNCHANGED <<observers, subscribers, videos, stockVars, weatherVars>>

YoutubeChannel_upload_video(title) ==
    /\ videos' = Append(videos, title)
    /\ out' = <<Line("is uploading video", title, 0),
                Line("Notifying subscribers", ChannelName, Len(subscribers))>>
    /\ updates' = UpdateEach(subscribers, <<ChannelName, title>>)
    /\ raised' = "none"
    /\ last' = Call("upload_video", <<title>>)
    /\ UNCHANGED <<observers, subscribers, stockVars, weatherVars>>

\* StockPrice("AAPL", 150.00), WeatherStation(), YoutubeChannel("TechDaily")
ObserverInit ==
    /\ observers = <<>>
    /\ price = 150
    /\ previous_price = 150
    /\ temperature = 0
    /\ humidity = 0
    /\ pressure = 0
    /\ subscribers = <<>>
    /\ videos = <<>>
    /\ updates = <<>>

----------------------------------------------------------------------------
(* 6_state/1_music_player *)

\* MusicPlayer.__init__: self._playlist
Playlist == <<"Track 1", "Track 2", "Track 3">>

\* self._playlist[self._current_track] (Python indexes from 0)
TrackAt(index) == Playlist[index + 1]

\* ---- LockedState
LockedState_click_play ==
    /\ out' = <<Line("Locked... Do nothing.", None, 0)>>
    /\ effects' = <<>>
    /\ UNCHANGED <<player_state, playing, current_track>>

\* variant: unlocking always goes to StoppedState
LockedState_click_lock_stopped ==
    /\ player_state' = "StoppedState"
    /\ out' = <<Line("Unlocked -> Stopped", None, 0)>>
    /\ effects' = <<"change_state">>
    /\ UNCHANGED <<playing, current_track>>

LockedState_click_lock ==
    /\ IF playing
       THEN /\ player_state' = "PlayingState"
            /\ out' = <<Line("Unlocked -> Playing", None, 0)>>
       ELSE /\ player_state' = "StoppedState"
            /\ out' = <<Line("Unlocked -> Stopped", None, 0)>>
    /\ effects' = <<"change_state">>
    /\ UNCHANGED <<playing, current_track>>

LockedState_click_next ==
    /\ out' = <<Line("Locked... Do nothing.", None, 0)>>
    /\ effects' = <<>>
    /\ UNCHANGED <<player_state, playing, current_track>>

LockedState_click_previous ==
    /\ out' = <<Line("Locked... Do nothing.", None, 0)>>
    /\ effects' = <<>>
    /\ UNCHANGED <<player_state, playing, current_track>>

\* ---- PlayingState
PlayingState_click_play ==
    /\ playing' = FALSE
    /\ player_state' = "StoppedState"
    /\ out' = <<Line("Playback stopped.", None, 0), Line("Paused.", None, 0)>>
    /\ effects' = <<"stop_playback", "change_state">>
    /\ UNCHANGED current_track

PlayingState_click_lock ==
    /\ player_state' = "LockedState"
    /\ out' = <<Line("Locked (while playing)", None, 0)>>
    /\ effects' = <<"change_state">>
    /\ UNCHANGED <<playing, current_track>>

PlayingState_click_next ==
    /\ current_track' = (current_track + 1) % Len(Playlist)
    /\ out' = <<Line("Next track", TrackAt((current_track + 1) % Len(Playlist)), 0)>>
    /\ effects' = <<"next_track">>
    /\ UNCHANGED <<player_state, playing>>

\* variant: the first track has no previous track
PlayingState_click_previous_stop_at_first ==
    /\ current_track' = (IF current_track = 0 THEN 0 ELSE current_track - 1)
    /\ out' = <<Line("Previous track",
                     TrackAt(IF current_track = 0 THEN 0 ELSE current_track - 1), 0)>>
    /\ effects' = <<"previous_track">>
    /\ UNCHANGED <<player_state, playing>>

PlayingState_click_previous ==
    /\ current_track' = (current_track - 1) % Len(Playlist)
    /\ out' = <<Line("Previous track", TrackAt((current_track - 1) % Len(Playlist)), 0)>>
    /\ effects' = <<"previous_track">>
    /\ UNCHANGED <<player_state, playing>>

\* ---- StoppedState
StoppedState_click_play ==
    /\ playing' = TRUE
    /\ player_state' = "PlayingState"
    /\ out' = <<Line("Playing", TrackAt(current_track), 0)>>
    /\ effects' = <<"start_playback", "change_state">>
    /\ UNCHANGED current_track

StoppedState_click_lock ==
    /\ player_state' = "LockedState"
    /\ out' = <<Line("Locked (while stopped)", None, 0)>>
    /\ effects' = <<"change_state">>
    /\ UNCHANGED <<playing, current_track>>

StoppedState_click_next ==
    /\ out' = <<Line("Locked... Do nothing.", None, 0)>>
    /\ effects' = <<>>
    /\ UNCHANGED <<player_state, playing, current_track>>

StoppedState_click_previous ==
    /\ out' = <<Line("Locked... Do nothing.", None, 0)>>
    /\ effects' = <<>>
    /\ UNCHANGED <<player_state, playing, current_track>>

\* ---- MusicPlayer: the four clicks delegate to the active state
MusicPlayer_click_play ==
    /\ CASE player_state = "LockedState"  -> LockedState_click_play
         [] player_state = "PlayingState" -> PlayingState_click_play
         [] player_state = "StoppedState" -> StoppedState_click_play
    /\ last' = Call("click_play", <<>>)

MusicPlayer_click_lock ==
    /\ CASE player_state = "LockedState"  -> LockedState_click_lock
         [] player_state = "PlayingState" -> PlayingState_click_lock
         [] player_state = "StoppedState" -> StoppedState_click_lock
    /\ last' = Call("click_lock", <<>>)

MusicPlayer_click_next ==
    /\ CASE player_state = "LockedState"  -> LockedState_click_next
         [] player_state = "PlayingState" -> PlayingState_click_next
         [] player_state = "StoppedState" -> StoppedState_click_next
    /\ last' = Call("click_next", <<>>)

MusicPlayer_click_previous ==
    /\ CASE player_state = "LockedState"  -> LockedState_click_previous
         [] player_state = "PlayingState" -> PlayingState_click_previous
         [] player_state = "StoppedState" -> StoppedState_click_previous
    /\ last' = Call("click_previous", <<>>)

\* MusicPlayer.__init__
MusicInit ==
    /\ player_state = "StoppedState"
    /\ playing = FALSE
    /\ current_track = 0
    /\ clicks = <<>>

----------------------------------------------------------------------------
(* 6_state/2_traffic_light *)

\* variant: the yellow light goes back to green
NextLightSkipRed(st) ==
    CASE st = "RedState"    -> "GreenState"
      [] st = "GreenState"  -> "YellowState"
      [] st = "YellowState" -> "GreenState"

\* the state each handle() sets: RedState.handle, GreenState.handle,
\* YellowState.handle
NextLight(st) ==
    CASE st = "RedState"    -> "GreenState"
      [] st = "GreenState"  -> "YellowState"
      [] st = "YellowState" -> "RedState"

\* get_color of the three states
get_color(st) ==
    CASE st = "RedState"    -> "RED"
      [] st = "GreenState"  -> "GREEN"
      [] st = "YellowState" -> "YELLOW"

\* get_duration of the three states
get_duration(st) ==
    CASE st = "RedState"    -> 30
      [] st = "GreenState"  -> 25
      [] st = "YellowState" -> 5

\* the light after k calls of change_state
RECURSIVE LightAfter(_, _)
LightAfter(st, k) == IF k = 0 THEN st ELSE LightAfter(NextLight(st), k - 1)

\* TrafficLight.change_state: the active state handles, and sets its successor
TrafficLight_change_state ==
    /\ out' = <<Line("LIGHT", get_color(light_state), 0)>>
    /\ light_state' = NextLight(light_state)
    /\ changes' = changes + 1
    /\ effects' = <<"set_state">>
    /\ raised' = "none"
    /\ last' = Call("change_state", <<>>)
    /\ UNCHANGED <<cycle_count, result>>

\* TrafficLight.start: `cycles` times three change_state calls; the cycle
\* count is assigned inside the loop only
TrafficLight_start(cycles) ==
    /\ light_state' = LightAfter(light_state, 3 * cycles)
    /\ changes' = changes + 3 * cycles
    /\ cycle_count' = (IF cycles > 0 THEN cycles ELSE cycle_count)
    /\ out' = [k \in 1..(3 * cycles) |->
                 LET st == LightAfter(light_state, k - 1)
                 IN  Line("Duration", get_color(st), get_duration(st))]
    /\ effects' = [k \in 1..(3 * cycles) |-> "change_state"]
    /\ raised' = "none"
    /\ last' = Call("start", <<cycles>>)
    /\ UNCHANGED result

\* TrafficLight.__init__
TrafficInit ==
    /\ light_state = "RedState"
    /\ cycle_count = 0
    /\ changes = 0

----------------------------------------------------------------------------
(* 1_strategy: PaymentProcessor and DataSorter *)

\* ---- the payment strategies of __main__; amounts in cents
PaymentStrategies == {"CreditCardPayment", "PayPalPayment", "CryptoPayment"}
PaymentAmounts == {9999, 14950, 20000}

\* the transaction id: a prefix and hash(field) % 10000 of the account field
TransactionId(prefix, field) == [prefix |-> prefix, hash_of |-> field]

\* CreditCardPayment("4532-1234-5678-9010", "123").pay
CreditCardPayment_pay(amount) ==
    [ printed |-> << Line("Processing credit card payment of", None, amount),
                     Line("Card", "9010", 0) >>,
      returned |-> [ status |-> "success", method |-> "credit_card",
                     amount |-> amount,
                     transaction_id |-> TransactionId("CC", "4532-1234-5678-9010") ] ]

\* PayPalPayment("customer@example.com").pay
PayPalPayment_pay(amount) ==
    [ printed |-> << Line("Processing PayPal payment of", None, amount),
                     Line("PayPal account", "customer@example.com", 0) >>,
      returned |-> [ status |-> "success", method |-> "paypal",
                     amount |-> amount,
                     transaction_id |-> TransactionId("PP", "customer@example.com") ] ]

\* CryptoPayment("1A1zP1eP5QGefi2DMPTfTL5SLmv7DivfNa", "BTC").pay
CryptoPayment_pay(amount) ==
    [ printed |-> << Line("Processing BTC payment of", None, amount),
                     Line("Wallet", "1A1zP1eP5Q...Lmv7DivfNa", 0) >>,
      returned |-> [ status |-> "success", method |-> "crypto",
                     currency |-> "BTC", amount |-> amount,
                     transaction_id |->
                         TransactionId("CRYPTO", "1A1zP1eP5QGefi2DMPTfTL5SLmv7DivfNa") ] ]

\* strategy.pay(amount), by the class of the strategy
PaymentStrategy_pay(s, amount) ==
    CASE s = "CreditCardPayment" -> CreditCardPayment_pay(amount)
      [] s = "PayPalPayment"     -> PayPalPayment_pay(amount)
      [] s = "CryptoPayment"     -> CryptoPayment_pay(amount)

\* one call made on a collaborator: the object, the method and the arguments
Invoke(object, method, args) == [object |-> object, method |-> method, args |-> args]

PaymentProcessor_set_strategy(s) ==
    /\ strategy' = s
    /\ result' = None
    /\ out' = <<>>
    /\ effects' = <<>>
    /\ raised' = "none"
    /\ last' = Call("set_strategy", <<s>>)

\* variant: without a strategy the payment is skipped silently
PaymentProcessor_process_payment_silent(amount) ==
    /\ IF strategy = None
       THEN /\ raised' = "none"
            /\ result' = None
            /\ out' = <<>>
            /\ effects' = <<>>
       ELSE /\ raised' = "none"
            /\ result' = PaymentStrategy_pay(strategy, amount).returned
            /\ out' = PaymentStrategy_pay(strategy, amount).printed
            /\ effects' = <<Invoke(strategy, "pay", <<amount>>)>>
    /\ last' = Call("process_payment", <<amount>>)
    /\ UNCHANGED strategy

PaymentProcessor_process_payment(amount) ==
    /\ IF strategy = None
       THEN /\ raised' = "ValueError"
            /\ result' = None
            /\ out' = <<>>
            /\ effects' = <<>>
       ELSE /\ raised' = "none"
            /\ result' = PaymentStrategy_pay(strategy, amount).returned
            /\ out' = PaymentStrategy_pay(strategy, amount).printed
            /\ effects' = <<Invoke(strategy, "pay", <<amount>>)>>
    /\ last' = Call("process_payment", <<amount>>)
    /\ UNCHANGED strategy

\* ---- the sorting strategies
SortStrategies == {"QuickSortStrategy", "MergeSortStrategy", "BubbleSortStrategy"}
SortValues == {-1, 0, 2}

\* the lists of at most n values
ListsUpTo(n) == UNION {[1..k -> SortValues] : k \in 0..n}

\* test_data of __main__
TestData == <<64, 34, 25, 12, 22, 11, 90, 5, 77, 50>>

\* the lists handed to a sorting strategy
SortInputs == ListsUpTo(MaxLen) \cup {TestData}

\* [x for x in data if Keep(x)]
Filter(data, Keep(_)) == SelectSeq(data, Keep)

\* QuickSortStrategy.sort
RECURSIVE QuickSortStrategy_sort(_)
QuickSortStrategy_sort(data) ==
    IF Len(data) <= 1 THEN data
    ELSE LET pivot == data[(Len(data) \div 2) + 1]
             left == Filter(data, LAMBDA x : x < pivot)
             middle == Filter(data, LAMBDA x : x = pivot)
             right == Filter(data, LAMBDA x : x > pivot)
         IN  QuickSortStrategy_sort(left) \o middle \o QuickSortStrategy_sort(right)

\* variant: the merge loop drops the tail of the right list
RECURSIVE MergeLoopDropTail(_, _, _, _, _)
MergeLoopDropTail(left, right, i, j, merged) ==
    IF i < Len(left) /\ j < Len(right)
    THEN IF left[i + 1] <= right[j + 1]
         THEN MergeLoopDropTail(left, right, i + 1, j, Append(merged, left[i + 1]))
         ELSE MergeLoopDropTail(left, right, i, j + 1, Append(merged, right[j + 1]))
    ELSE merged \o SubSeq(left, i + 1, Len(left))

\* MergeSortStrategy._merge: the while loop from (i, j) on, then the two
\* extend calls
RECURSIVE MergeLoop(_, _, _, _, _)
MergeLoop(left, right, i, j, merged) ==
    IF i < Len(left) /\ j < Len(right)
    THEN IF left[i + 1] <= right[j + 1]
         THEN MergeLoop(left, right, i + 1, j, Append(merged, left[i + 1]))
         ELSE MergeLoop(left, right, i, j + 1, Append(merged, right[j + 1]))
    ELSE merged \o SubSeq(left, i + 1, Len(left)) \o SubSeq(right, j + 1, Len(right))

\* MergeSortStrategy._merge
MergeSortStrategy_merge(left, right) == MergeLoop(left, right, 0, 0, <<>>)

\* MergeSortStrategy.sort
RECURSIVE MergeSortStrategy_sort(_)
MergeSortStrategy_sort(data) ==
    IF Len(data) <= 1 THEN data
    ELSE LET mid == Len(data) \div 2
             left == MergeSortStrategy_sort(SubSeq(data, 1, mid))
             right == MergeSortStrategy_sort(SubSeq(data, mid + 1, Len(data)))
         IN  MergeSortStrategy_merge(left, right)

\* arr[j], arr[j + 1] = arr[j + 1], arr[j] (Python indexes from 0)
Swap(arr, j) == [arr EXCEPT ![j + 1] = arr[j + 2], ![j + 2] = arr[j + 1]]

\* BubbleSortStrategy.sort: the inner loop `for j in range(0, n - i - 1)`
\* from j on; gives the list and the swapped flag
RECURSIVE BubbleInner(_, _, _, _)
BubbleInner(arr, j, stop, swapped) ==
    IF j >= stop THEN [arr |-> arr, swapped |-> swapped]
    ELSE IF arr[j + 1] > arr[j + 2]
         THEN BubbleInner(Swap(arr, j), j + 1, stop, TRUE)
         ELSE BubbleInner(arr, j + 1, stop, swapped)

\* BubbleSortStrategy.sort: the outer loop `for i in range(n)` from i on,
\* left early after a pass without a swap
RECURSIVE BubbleOuter(_, _)
BubbleOuter(arr, i) ==
    IF i >= Len(arr) THEN arr
    ELSE LET pass == BubbleInner(arr, 0, Len(arr) - i - 1, FALSE)
         IN  IF ~pass.swapped THEN pass.arr ELSE BubbleOuter(pass.arr, i + 1)

\* BubbleSortStrategy.sort
BubbleSortStrategy_sort(data) == BubbleOuter(data, 0)

\* strategy.sort(data), by the class of the strategy
SortStrategy_sort(s, data) ==
    CASE s = "QuickSortStrategy"  -> QuickSortStrategy_sort(data)
      [] s = "MergeSortStrategy"  -> MergeSortStrategy_sort(data)
      [] s = "BubbleSortStrategy" -> BubbleSortStrategy_sort(data)

DataSorter_set_strategy(s) ==
    /\ strategy' = s
    /\ result' = None
    /\ out' = <<>>
    /\ effects' = <<>>
    /\ raised' = "none"
    /\ last' = Call("set_strategy", <<s>>)

DataSorter_sort_data(data) ==
    /\ IF strategy = None
       THEN /\ raised' = "ValueError"
            /\ result' = None
            /\ effects' = <<>>
       ELSE /\ raised' = "none"
            /\ result' = SortStrategy_sort(strategy, data)
            /\ effects' = <<Invoke(strategy, "sort", <<data>>)>>
    /\ out' = <<>>
    /\ last' = Call("sort_data", <<data>>)
    /\ UNCHANGED strategy

\* PaymentProcessor(), DataSorter(): no strategy
StrategyInit == strategy = None

----------------------------------------------------------------------------
(* 2_decorator/1_coffee_shop                                               *)
(*                                                                         *)
(* A beverage is Espresso() wrapped in decorators; it is modelled by the   *)
(* list of its decorators, innermost first, each a record of the class     *)
(* and the teaspoons (0 for a class that has none).  Costs are in cents:   *)
(* the float sum of the source, taken in the same order, differs from the  *)
(* decimal sum by rounding error only and prints the same with `.2f`.      *)

\* a decorator object
Decorator(class, teaspoons) == [class |-> class, teaspoons |-> teaspoons]

\* the decorators a customer can ask for
AddOns ==
    {Decorator(c, 0) : c \in {"MilkDecorator", "WhipDecorator", "CaramelDecorator"}}
        \cup {Decorator("SugarDecorator", t) : t \in 0..MaxTeaspoons}

\* what get_cost of the decorator adds to the cost of the wrapped beverage
CostAdded(d) ==
    CASE d.class = "MilkDecorator"    -> 50
      [] d.class = "SugarDecorator"   -> 10 * d.teaspoons
      [] d.class = "WhipDecorator"    -> 75
      [] d.class = "CaramelDecorator" -> 60

\* what get_description of the decorator appends to that of the wrapped beverage
DescriptionAdded(d) ==
    CASE d.class = "MilkDecorator"    -> ", Milk"
      [] d.class = "SugarDecorator"   -> ", " \o ToString(d.teaspoons) \o " tsp Sugar"
      [] d.class = "WhipDecorator"    -> ", Whipped Cream"
      [] d.class = "CaramelDecorator" -> ", Caramel"

\* the beverage a decorator wraps, and the decorator itself
Wrapped(b) == SubSeq(b, 1, Len(b) - 1)
Outermost(b) == b[Len(b)]

\* get_cost: Espresso.get_cost, or the wrapped beverage's cost plus the add-on
RECURSIVE get_cost(_)
get_cost(b) ==
    IF b = <<>> THEN 250 ELSE get_cost(Wrapped(b)) + CostAdded(Outermost(b))

\* variant: the add-on label is put in front of the wrapped description
RECURSIVE get_description_prepend(_)
get_description_prepend(b) ==
    IF b = <<>> THEN "Espresso"
    ELSE DescriptionAdded(Outermost(b)) \o get_description_prepend(Wrapped(b))

\* get_description: Espresso.get_description, or the wrapped beverage's
\* description followed by the add-on label
RECURSIVE get_description(_)
get_description(b) ==
    IF b = <<>> THEN "Espresso"
    ELSE get_description(Wrapped(b)) \o DescriptionAdded(Outermost(b))

\* MilkDecorator(beverage), SugarDecorator(beverage, teaspoons), ...
BeverageDecorator_init(d) ==
    /\ beverage' = Append(beverage, d)
    /\ result' = None
    /\ out' = <<>>
    /\ effects' = <<>>
    /\ raised' = "none"
    /\ last' = Call(d.class, <<d.teaspoons>>)
    /\ UNCHANGED handler

\* beverage.get_cost()
Beverage_get_cost ==
    /\ result' = get_cost(beverage)
    /\ out' = <<>>
    /\ effects' = <<>>
    /\ raised' = "none"
    /\ last' = Call("get_cost", <<>>)
    /\ UNCHANGED decoratorVars

\* beverage.get_description()
Beverage_get_description ==
    /\ result' = get_description(beverage)
    /\ out' = <<>>
    /\ effects' = <<>>
    /\ raised' = "none"
    /\ last' = Call("get_description", <<>>)
    /\ UNCHANGED decoratorVars

\* Espresso(), RequestHandler()
DecoratorInit ==
    /\ beverage = <<>>
    /\ handler = <<>>

----------------------------------------------------------------------------
(* 2_decorator/1_middleware                                                *)
(*                                                                         *)
(* A handler is RequestHandler() wrapped in middleware; it is modelled by  *)
(* the list of the middleware classes, innermost first.  Layer 0 is the    *)
(* RequestHandler and layer k the k-th middleware.  A request is a dict,   *)
(* modelled as a record that has the key is_authenticated or lacks it.     *)

MiddlewareClasses == {"LoggingMiddleware", "AuthMiddleware"}

\* the requests of the script, other users and paths, and requests that
\* carry no is_authenticated key
Requests ==
    [path : {"/about", "/dashboard"}, user : {"admin", "hacker"},
     is_authenticated : BOOLEAN]
        \cup [path : {"/about", "/dashboard"}, user : {"admin", "hacker"}]

\* request.get(key) where the value is printed
dict_get(request, key) == IF key \in DOMAIN request THEN request[key] ELSE None

\* `if request.get(key):` -- an absent key gives None, which is false
dict_get_true(request, key) == key \in DOMAIN request /\ request[key] = TRUE

\* one printed line: the layer that printed it, the text and the value in it
Printed(layer, msg, value) == [layer |-> layer, msg |-> msg, value |-> value]

\* what a call prints and the calls it makes on wrapped handlers, in order
Ran(printed, delegated) == [printed |-> printed, delegated |-> delegated]

RECURSIVE Handler_handle_request(_, _)

RequestHandler_handle_request(request) ==
    Ran(<<Printed(0, "Processing request for path: ", dict_get(request, "path")),
          Printed(0, "  -> Core logic executed (Database query, Business logic, etc.)", None),
          Printed(0, "  -> Response generated: 200 OK", None)>>,
        <<>>)

\* self._handler.handle_request(request) in the middleware at the top of h
Delegate(h, request) == Invoke(Len(h) - 1, "handle_request", <<request>>)

LoggingMiddleware_handle_request(h, request) ==
    LET inner == Handler_handle_request(Wrapped(h), request)
    IN  Ran(<<Printed(Len(h), "[LOG] Incoming request: ", request)>>
                \o inner.printed
                \o <<Printed(Len(h), "[LOG] Request finished for: ", dict_get(request, "path"))>>,
            <<Delegate(h, request)>> \o inner.delegated)

\* variant: the failure is reported but the request is passed on all the same
AuthMiddleware_handle_request_open(h, request) ==
    LET inner == Handler_handle_request(Wrapped(h), request)
    IN  IF dict_get_true(request, "is_authenticated")
        THEN Ran(<<Printed(Len(h), "[AUTH] User is authenticated. Proceeding...", None)>>
                    \o inner.printed,
                 <<Delegate(h, request)>> \o inner.delegated)
        ELSE Ran(<<Printed(Len(h), "[AUTH] Authentication FAILED! Request blocked.", None),
                   Printed(Len(h), "  -> Response generated: 401 Unauthorized", None)>>
                    \o inner.printed,
                 <<Delegate(h, request)>> \o inner.delegated)

AuthMiddleware_handle_request(h, request) ==
    LET inner == Handler_handle_request(Wrapped(h), request)
    IN  IF dict_get_true(request, "is_authenticated")
        THEN Ran(<<Printed(Len(h), "[AUTH] User is authenticated. Proceeding...", None)>>
                    \o inner.printed,
                 <<Delegate(h, request)>> \o inner.delegated)
        ELSE Ran(<<Printed(Len(h), "[AUTH] Authentication FAILED! Request blocked.", None),
                   Printed(Len(h), "  -> Response generated: 401 Unauthorized", None)>>,
                 <<>>)

\* dynamic dispatch on the class of the outermost handler
Handler_handle_request(h, request) ==
    CASE h = <<>> -> RequestHandler_handle_request(request)
      [] h # <<>> /\ Outermost(h) = "LoggingMiddleware" ->
            LoggingMiddleware_handle_request(h, request)
      [] h # <<>> /\ Outermost(h) = "AuthMiddleware" ->
            AuthMiddleware_handle_request(h, request)

\* LoggingMiddleware(handler), AuthMiddleware(handler)
Middleware_init(class) ==
    /\ handler' = Append(handler, class)
    /\ result' = None
    /\ out' = <<>>
    /\ effects' = <<>>
    /\ raised' = "none"
    /\ last' = Call(class, <<>>)
    /\ UNCHANGED beverage

\* handler.handle_request(request) on the outermost handler
App_handle_request(request) ==
    LET ran == Handler_handle_request(handler, request)
    IN  /\ out' = ran.printed
        /\ effects' = ran.delegated
        /\ result' = None
        /\ raised' = "none"
        /\ last' = Call("handle_request", <<request>>)
        /\ UNCHANGED decoratorVars

----------------------------------------------------------------------------
(* 4_adapter/1_media_player                                                *)
(*                                                                         *)
(* A type tag is a Python str, modelled as the list of its characters, so  *)
(* that str.lower acts on it character by character.  A file name is only  *)
(* formatted into other strings and stays a string.                        *)

\* the characters of the tags: the letters of mp3, mp4 and vlc in both cases,
\* their digits, and two letters of no supported tag
Characters == {"m", "M", "p", "P", "3", "4", "v", "V", "l", "L", "c", "C", "a", "i"}

\* the tags of at most n characters
TagsUpTo(n) == UNION {[1..k -> Characters] : k \in 0..n}

\* tags that hold a supported tag and one more character
LongTags == {<<"m", "p", "3", "4">>, <<"a", "m", "p", "3">>, <<"V", "L", "C", "c">>}

AudioTypes == TagsUpTo(MaxTagLen) \cup LongTags

FileNames == {"song.mp3", "video.avi"}

\* str.lower on one character
Lower(ch) ==
    CASE ch = "M" -> "m"
      [] ch = "P" -> "p"
      [] ch = "V" -> "v"
      [] ch = "L" -> "l"
      [] ch = "C" -> "c"
      [] ch = "O" -> "o"
      [] ch = "E" -> "e"
      [] ch = "T" -> "t"
      [] ch = "D" -> "d"
      [] OTHER -> ch

\* variant: the tag is compared as it is written
str_lower_verbatim(str) == str

\* str.lower()
str_lower(str) == [i \in DOMAIN str |-> Lower(str[i])]

\* what a call does: the exception it raises and its argument, the value it
\* returns, the lines it prints and the calls it makes, in order
Outcome(exception, argument, returned, printed, made) ==
    [raised |-> exception, message |-> argument, returned |-> returned,
     printed |-> printed, made |-> made]

\* the text of an exception or of a printed line: a format and the value in it
Text(format, value) == [format |-> format, value |-> value]

Mp3Player_play_mp3(file_name) ==
    Outcome("none", None, "MP3: " \o file_name,
            <<Text("Playing MP3 file: ", file_name)>>, <<>>)

Mp4Player_play_mp4(file_name) ==
    Outcome("none", None, "MP4: " \o file_name,
            <<Text("Playing MP4 file: ", file_name)>>, <<>>)

VlcPlayer_play_vlc(file_name) ==
    Outcome("none", None, "VLC: " \o file_name,
            <<Text("Playing VLC file: ", file_name)>>, <<>>)

\* the caller makes `call` and the callee does `done`
Calling(call, done) ==
    [done EXCEPT !.made = <<call>> \o done.made]

Mp3Adapter_play(audio_type, file_name) ==
    IF str_lower(audio_type) = <<"m", "p", "3">>
    THEN Calling(Invoke("Mp3Player", "play_mp3", <<file_name>>),
                 Mp3Player_play_mp3(file_name))
    ELSE Outcome("ValueError", Text("MP3 adapter cannot play {} files", audio_type),
                 None, <<>>, <<>>)

Mp4Adapter_play(audio_type, file_name) ==
    IF str_lower(audio_type) = <<"m", "p", "4">>
    THEN Calling(Invoke("Mp4Player", "play_mp4", <<file_name>>),
                 Mp4Player_play_mp4(file_name))
    ELSE Outcome("ValueError", Text("MP4 adapter cannot play {} files", audio_type),
                 None, <<>>, <<>>)

VlcAdapter_play(audio_type, file_name) ==
    IF str_lower(audio_type) = <<"v", "l", "c">>
    THEN Calling(Invoke("VlcPlayer", "play_vlc", <<file_name>>),
                 VlcPlayer_play_vlc(file_name))
    ELSE Outcome("ValueError", Text("VLC adapter cannot play {} files", audio_type),
                 None, <<>>, <<>>)

AudioPlayer_play(audio_type, file_name) ==
    LET audio_type_lower == str_lower(audio_type)
    IN  CASE audio_type_lower = <<"m", "p", "3">> ->
                Calling(Invoke("Mp3Adapter", "play", <<audio_type, file_name>>),
                        Mp3Adapter_play(audio_type, file_name))
          [] audio_type_lower = <<"m", "p", "4">> ->
                Calling(Invoke("Mp4Adapter", "play", <<audio_type, file_name>>),
                        Mp4Adapter_play(audio_type, file_name))
          [] audio_type_lower = <<"v", "l", "c">> ->
                Calling(Invoke("VlcAdapter", "play", <<audio_type, file_name>>),
                        VlcAdapter_play(audio_type, file_name))
          [] OTHER ->
                Outcome("ValueError", Text("Invalid media type: ", audio_type),
                        None, <<>>, <<>>)

\* the calls a client of the media player makes
MediaPlayerCalls ==
    {Invoke("AudioPlayer", "play", <<audio_type, file_name>>) :
        audio_type \in AudioTypes, file_name \in FileNames}

\* the client makes its call and `done` is what the call does
ClientCalls(done) ==
    /\ raised' = done.raised
    /\ message' = done.message
    /\ result' = done.returned
    /\ out' = done.printed
    /\ effects' = done.made
    /\ last' = Call(client_call.method, client_call.args)
    /\ UNCHANGED client_call

\* player.play(audio_type, file_name)
Client_play ==
    /\ client_call.method = "play"
    /\ ClientCalls(AudioPlayer_play(client_call.args[1], client_call.args[2]))

\* no call is chosen in the other examples
AdapterInit ==
    /\ client_call = Invoke(None, "none", <<>>)
    /\ message = None

----------------------------------------------------------------------------
(* Python float arithmetic                                                 *)
(*                                                                         *)
(* A float is an IEEE 754 double: a 53-bit mantissa times a power of two,  *)
(* every operation rounding its exact result to the nearest double, ties   *)
(* to even.  Mantissas exceed the integers of the model checker, so a      *)
(* natural number is kept as the list of its digits in base 4096, lowest   *)
(* first.  Only non-negative values in the normal range occur.             *)

\* 2^b for a small b
RECURSIVE Pow2(_)
Pow2(b) == IF b = 0 THEN 1 ELSE 2 * Pow2(b - 1)

Base == Pow2(12)

\* the digits of the natural number n
RECURSIVE Digits(_)
Digits(n) == IF n = 0 THEN <<>> ELSE <<n % Base>> \o Digits(n \div Base)

\* the natural number of a list of digits
RECURSIVE DigitsValue(_)
DigitsValue(digits) ==
    IF digits = <<>> THEN 0 ELSE Head(digits) + Base * DigitsValue(Tail(digits))

\* without the zero digits at the high end
RECURSIVE Trim(_)
Trim(digits) ==
    IF digits = <<>> \/ digits[Len(digits)] # 0 THEN digits
    ELSE Trim(SubSeq(digits, 1, Len(digits) - 1))

\* digits * k + carry for 1 <= k <= Base
RECURSIVE TimesSmall(_, _, _)
TimesSmall(digits, k, carry) ==
    IF digits = <<>> THEN Digits(carry)
    ELSE LET t == Head(digits) * k + carry
         IN  <<t % Base>> \o TimesSmall(Tail(digits), k, t \div Base)

\* quotient and remainder of digits by k, 1 <= k <= Base
RECURSIVE DivMod(_, _)
DivMod(digits, k) ==
    IF digits = <<>> THEN [q |-> <<>>, r |-> 0]
    ELSE LET high == DivMod(Tail(digits), k)
             t == Base * high.r + Head(digits)
         IN  [q |-> <<t \div k>> \o high.q, r |-> t % k]

\* digits + 1
RECURSIVE Increment(_)
Increment(digits) ==
    IF digits = <<>> THEN <<1>>
    ELSE IF Head(digits) < Base - 1 THEN <<Head(digits) + 1>> \o Tail(digits)
    ELSE <<0>> \o Increment(Tail(digits))

\* the number of bits of a small number n
RECURSIVE SmallBitLen(_)
SmallBitLen(n) == IF n = 0 THEN 0 ELSE 1 + SmallBitLen(n \div 2)

\* the number of bits of a trimmed number
BitLen(digits) ==
    IF digits = <<>> THEN 0
    ELSE 12 * (Len(digits) - 1) + SmallBitLen(digits[Len(digits)])

IsOdd(digits) == digits # <<>> /\ digits[1] % 2 = 1

\* digits * 2^j
TimesPow2(digits, j) ==
    [i \in 1..(j \div 12) |-> 0] \o TimesSmall(digits, Pow2(j % 12), 0)

\* digits / 2^j rounded down
QuotPow2(digits, j) ==
    Trim(DivMod(SubSeq(digits, (j \div 12) + 1, Len(digits)), Pow2(j % 12)).q)

\* digits / 2^j rounded to nearest, ties to even: the bit below the cut is
\* the lowest bit of digits / 2^(j-1), and the rest is zero when digits is
\* that quotient times 2^(j-1)
RoundPow2(digits, j) ==
    LET q == QuotPow2(digits, j)
        half == IsOdd(QuotPow2(digits, j - 1))
        rest == Trim(TimesPow2(QuotPow2(digits, j - 1), j - 1)) # Trim(digits)
    IN  IF j = 0 THEN Trim(digits)
        ELSE IF half /\ (rest \/ IsOdd(q)) THEN Increment(q) ELSE q

\* the float mantissa * 2^exponent; a mantissa of 54 bits comes from rounding
\* up to a power of two and is halved exactly
Float(mantissa, exponent) ==
    IF BitLen(mantissa) = 54
    THEN [mantissa |-> QuotPow2(mantissa, 1), exponent |-> exponent + 1]
    ELSE [mantissa |-> mantissa, exponent |-> exponent]

FloatZero == Float(<<>>, 0)

\* q, the quotient of a division by d that left remainder r, rounded to nearest
RoundQuotient(q, r, d) ==
    IF 2 * r > d \/ (2 * r = d /\ IsOdd(q)) THEN Increment(q) ELSE q

\* the double nearest to n / d: a decimal literal such as 0.29 (29 / 100),
\* or the true division n / d of two ints, which Python rounds correctly
FloatOfRatio(n, d) ==
    IF n = 0 THEN FloatZero
    ELSE LET k0 == 53 + SmallBitLen(d) - BitLen(Digits(n))
             q0 == Trim(DivMod(TimesPow2(Digits(n), k0), d).q)
             k == IF BitLen(q0) = 54 THEN k0 - 1 ELSE k0
             dm == DivMod(TimesPow2(Digits(n), k), d)
         IN  Float(RoundQuotient(Trim(dm.q), dm.r, d), -k)

\* x * k for a float x and an int 1 <= k <= Base
FloatTimes(x, k) ==
    IF x.mantissa = <<>> THEN FloatZero
    ELSE LET product == Trim(TimesSmall(x.mantissa, k, 0))
             s == BitLen(product) - 53
         IN  Float(RoundPow2(product, s), x.exponent + s)

\* int(x): the integer part of a float
FloatInt(x) ==
    IF x.exponent >= 0 THEN DigitsValue(TimesPow2(x.mantissa, x.exponent))
    ELSE DigitsValue(QuotPow2(x.mantissa, -x.exponent))

----------------------------------------------------------------------------
(* 4_adapter/2_payment_gateway                                             *)
(*                                                                         *)
(* An amount is a Python float.  The transaction numbers are drawn with    *)
(* random.randint; a call draws either end of the range.  refund does not  *)
(* touch an amount and is left out.                                        *)

\* the amounts of the script and all small amounts, in cents
PaymentCents == (0..MaxCents) \cup {9999, 14950, 7500}

\* the float a client writes for an amount of c cents, such as 0.29
Dollars(c) == FloatOfRatio(c, 100)

Currencies == {"USD", "EUR"}

\* random.randint(low, high)
RandInt(low, high) == {low, high}

StripeAPI_charge(amount_cents, currency, n) ==
    Outcome("none", None,
            [id |-> "ch_stripe_" \o ToString(n), amount |-> amount_cents,
             currency |-> currency, status |-> "succeeded"],
            <<Text("Stripe: Charging {:.2f} {}", <<FloatOfRatio(amount_cents, 100), currency>>)>>,
            <<>>)

PayPalAPI_make_payment(amount, currency_code, n) ==
    Outcome("none", None,
            [paymentId |-> "PAYPAL-" \o ToString(n), state |-> "approved",
             amount |-> amount, currency |-> currency_code],
            <<Text("PayPal: Processing payment of {} {}", <<amount, currency_code>>)>>,
            <<>>)

SquareAPI_create_payment(amount_money, n) ==
    Outcome("none", None,
            [payment_id |-> "sq_" \o ToString(n),
             status |-> <<"C", "O", "M", "P", "L", "E", "T", "E", "D">>,
             amount_money |-> amount_money],
            <<Text("Square: Creating payment of {} {}",
                   <<FloatOfRatio(amount_money.amount, 100), amount_money.currency>>)>>,
            <<>>)

\* the callee did `done` and the caller returns `returned` in its place
Returning(done, returned) == [done EXCEPT !.returned = returned]

StripeAdapter_process_payment(amount, currency, n) ==
    LET amount_cents == FloatInt(FloatTimes(amount, 100))
        charged == StripeAPI_charge(amount_cents, currency, n)
        charge == charged.returned
    IN  Calling(Invoke("StripeAPI", "charge", <<amount_cents, currency>>),
                Returning(charged,
                          [transaction_id |-> charge.id,
                           amount |-> FloatOfRatio(charge.amount, 100),
                           currency |-> charge.currency,
                           status |-> charge.status,
                           gateway |-> "stripe"]))

PayPalAdapter_process_payment(amount, currency, n) ==
    LET paid == PayPalAPI_make_payment(amount, currency, n)
        payment == paid.returned
    IN  Calling(Invoke("PayPalAPI", "make_payment", <<amount, currency>>),
                Returning(paid,
                          [transaction_id |-> payment.paymentId,
                           amount |-> payment.amount,
                           currency |-> payment.currency,
                           status |-> payment.state,
                           gateway |-> "paypal"]))

SquareAdapter_process_payment(amount, currency, n) ==
    LET amount_money == [amount |-> FloatInt(FloatTimes(amount, 100)),
                         currency |-> currency]
        created == SquareAPI_create_payment(amount_money, n)
        payment == created.returned
    IN  Calling(Invoke("SquareAPI", "create_payment", <<amount_money>>),
                Returning(created,
                          [transaction_id |-> payment.payment_id,
                           amount |-> FloatOfRatio(payment.amount_money.amount, 100),
                           currency |-> payment.amount_money.currency,
                           status |-> str_lower(payment.status),
                           gateway |-> "square"]))

PaymentGateways == {"StripeAdapter", "PayPalAdapter", "SquareAdapter"}

\* the calls a client of the payment gateways makes
PaymentGatewayCalls ==
    {Invoke(gateway, "process_payment", <<Dollars(c), currency>>) :
        gateway \in PaymentGateways, c \in PaymentCents, currency \in Currencies}

\* stripe.process_payment(amount, currency)
Client_stripe_process_payment ==
    /\ client_call.method = "process_payment"
    /\ client_call.object = "StripeAdapter"
    /\ \E n \in RandInt(10000, 99999) :
          ClientCalls(StripeAdapter_process_payment(
                          client_call.args[1], client_call.args[2], n))

\* paypal.process_payment(amount, currency)
Client_paypal_process_payment ==
    /\ client_call.method = "process_payment"
    /\ client_call.object = "PayPalAdapter"
    /\ \E n \in RandInt(100000, 999999) :
          ClientCalls(PayPalAdapter_process_payment(
                          client_call.args[1], client_call.args[2], n))

\* square.process_payment(amount, currency)
Client_square_process_payment ==
    /\ client_call.method = "process_payment"
    /\ client_call.object = "SquareAdapter"
    /\ \E n \in RandInt(1000000, 9999999) :
          ClientCalls(SquareAdapter_process_payment(
                          client_call.args[1], client_call.args[2], n))

----------------------------------------------------------------------------
(* 5_factory/1_ui_components                                               *)
(*                                                                         *)
(* An object without fields is modelled by the name of its class.  The     *)
(* emoji that start the render strings are left out.                       *)

\* the members of the enum OS
OS == {"OS.WINDOWS", "OS.MACOS", "OS.LINUX"}

\* what a caller can hand to get_ui_factory: a member of OS, the value of a
\* member, another string, or None
OSKeys == OS \cup {"windows", "android", None}

\* the class returned by each create method of each factory class
UIFactory_create ==
    [WindowsFactory |->
        [create_button |-> "WindowsButton", create_dialog |-> "WindowsDialog",
         create_menu |-> "WindowsMenu"],
     MacOSFactory |->
        [create_button |-> "MacOSButton", create_dialog |-> "MacOSDialog",
         create_menu |-> "MacOSMenu"],
     LinuxFactory |->
        [create_button |-> "LinuxButton", create_dialog |-> "LinuxDialog",
         create_menu |-> "LinuxMenu"]]

\* render() of the nine products
Product_render ==
    [WindowsButton |-> "[Windows Button]", WindowsDialog |-> "Windows Dialog Window",
     WindowsMenu |-> "Windows Menu Bar",
     MacOSButton |-> "[macOS Button]", MacOSDialog |-> "macOS Dialog Window",
     MacOSMenu |-> "macOS Menu Bar",
     LinuxButton |-> "[Linux Button]", LinuxDialog |-> "Linux Dialog Window",
     LinuxMenu |-> "Linux Menu Bar"]

\* onClick() of the buttons
Button_onClick ==
    [WindowsButton |-> "Windows button clicked - using Win32 API",
     MacOSButton |-> "macOS button clicked - using Cocoa framework",
     LinuxButton |-> "Linux button clicked - using GTK/Qt"]

\* show() of the dialogs
Dialog_show ==
    [WindowsDialog |-> "Showing Windows native dialog (Win32)",
     MacOSDialog |-> "Showing macOS native dialog (Cocoa/AppKit)",
     LinuxDialog |-> "Showing Linux native dialog (GTK/Qt)"]

\* the dict `factories` of get_ui_factory
factories ==
    [os_type \in OS |->
        CASE os_type = "OS.WINDOWS" -> "WindowsFactory"
          [] os_type = "OS.MACOS" -> "MacOSFactory"
          [] os_type = "OS.LINUX" -> "LinuxFactory"]

\* variant: a key that is not mapped gets the Linux factory
get_ui_factory_fallback(os_type) ==
    LET factory_class == IF os_type \in DOMAIN factories THEN factories[os_type] ELSE None
    IN  IF factory_class # None
        THEN Outcome("none", None, factory_class, <<>>, <<>>)
        ELSE Outcome("none", None, "LinuxFactory", <<>>, <<>>)

\* get_ui_factory: dict.get gives None for a key that is not mapped
get_ui_factory(os_type) ==
    LET factory_class == IF os_type \in DOMAIN factories THEN factories[os_type] ELSE None
    IN  IF factory_class # None
        THEN Outcome("none", None, factory_class, <<>>, <<>>)
        ELSE Outcome("ValueError", Text("Unsupported OS: ", os_type), None, <<>>, <<>>)

\* an Application object
Application(factory, button, dialog, menu) ==
    [factory |-> factory, button |-> button, dialog |-> dialog, menu |-> menu]

\* the outcome of a call shows in the variables every call sets
Shows(done) ==
    /\ raised' = done.raised
    /\ message' = done.message
    /\ result' = done.returned
    /\ out' = done.printed
    /\ effects' = done.made

\* get_ui_factory(os_type) called by the client
Client_get_ui_factory(os_type) ==
    /\ Shows(get_ui_factory(os_type))
    /\ last' = Call("get_ui_factory", <<os_type>>)
    /\ UNCHANGED apps

\* Application(os_type): no object is built when get_ui_factory raises
Application_init(os_type) ==
    LET got == get_ui_factory(os_type)
    IN  /\ Shows([got EXCEPT !.returned = None,
                             !.made = <<Call("get_ui_factory", <<os_type>>)>>])
        /\ apps' = IF got.raised = "none"
                   THEN Append(apps, Application(got.returned, None, None, None))
                   ELSE apps
        /\ last' = Call("Application", <<os_type>>)

\* apps[i].create_ui()
Application_create_ui(i) ==
    LET create == UIFactory_create[apps[i].factory]
    IN  /\ apps' = [apps EXCEPT ![i].button = create.create_button,
                                ![i].dialog = create.create_dialog,
                                ![i].menu = create.create_menu]
        /\ Shows(Outcome("none", None, None, <<>>,
                         <<Invoke(apps[i].factory, "create_button", <<>>),
                           Invoke(apps[i].factory, "create_dialog", <<>>),
                           Invoke(apps[i].factory, "create_menu", <<>>)>>))
        /\ last' = Call("create_ui", <<i>>)

\* apps[i].render_ui(): None has no render before create_ui
Application_render_ui(i) ==
    /\ IF apps[i].menu = None
       THEN Shows(Outcome("AttributeError", Text("'NoneType' object has no attribute ", "render"),
                          None, <<>>, <<>>))
       ELSE Shows(Outcome("none", None, None,
                          <<"  " \o Product_render[apps[i].menu],
                            "  " \o Product_render[apps[i].button],
                            "  " \o Product_render[apps[i].dialog]>>,
                          <<Invoke(apps[i].menu, "render", <<>>),
                            Invoke(apps[i].button, "render", <<>>),
                            Invoke(apps[i].dialog, "render", <<>>)>>))
    /\ last' = Call("render_ui", <<i>>)
    /\ UNCHANGED apps

\* apps[i].interact(): None has no onClick before create_ui
Application_interact(i) ==
    /\ IF apps[i].button = None
       THEN Shows(Outcome("AttributeError", Text("'NoneType' object has no attribute ", "onClick"),
                          None, <<>>, <<>>))
       ELSE Shows(Outcome("none", None, None,
                          <<"  " \o Button_onClick[apps[i].button],
                            "  " \o Dialog_show[apps[i].dialog]>>,
                          <<Invoke(apps[i].button, "onClick", <<>>),
                            Invoke(apps[i].dialog, "show", <<>>)>>))
    /\ last' = Call("interact", <<i>>)
    /\ UNCHANGED apps

\* no Application is built yet
FactoryInit == apps = <<>>

----------------------------------------------------------------------------
(* 7_composite/1_file_system and 7_composite/2_organization_chart *)

\* the Folder objects and the File objects, by name
Folders == {"root", "Documents", "Projects"}
Files == {"readme.txt", "resume.pdf"}

\* File._size
File_size == [f \in Files |-> IF f = "readme.txt" THEN 512 ELSE 245760]

\* the Department objects and the Employee objects, by name
Departments == {"TechCorp Inc.", "Marketing", "Digital Marketing"}
Employees == {"Oliver White", "Ivy Chen"}

\* Employee._salary
Employee_salary == [e \in Employees |-> IF e = "Oliver White" THEN 250000 ELSE 65000]

\* the composites and the leaves of the example
Composites == IF example = "organization_chart" THEN Departments ELSE Folders
Leaves == IF example = "organization_chart" THEN Employees ELSE Files
Components == Composites \cup Leaves

File_get_size(file) == File_size[file]

Employee_get_salary(employee) == Employee_salary[employee]

Employee_get_employee_count(employee) == 1

\* the answer of a leaf to a query
Leaf_get(method, leaf) ==
    IF method = "get_size" THEN File_get_size(leaf)
    ELSE IF method = "get_salary" THEN Employee_get_salary(leaf)
    ELSE Employee_get_employee_count(leaf)

\* a chain of nested calls longer than the number of composites has met one
\* of them twice and never ends: Python ends it with RecursionError
RecursionLimit == Cardinality(Composites) + 1

RecursionError ==
    Outcome("RecursionError", "maximum recursion depth exceeded", None, <<>>, <<>>)

RECURSIVE Composite_get(_, _, _, _)
RECURSIVE Composite_loop(_, _, _, _, _, _)

\* component.get_size() / get_salary() / get_employee_count() with depth
\* frames left, on the child lists kids
Component_get(method, kids, item, depth) ==
    IF item \in Leaves
    THEN Outcome("none", None, Leaf_get(method, item), <<>>, <<>>)
    ELSE Composite_get(method, kids, item, depth)

\* total = 0; for child in self._children: total += child.get_...()
Composite_get(method, kids, composite, depth) ==
    IF depth = 0 THEN RecursionError
    ELSE Composite_loop(method, kids, kids[composite], 1, 0, depth)

Composite_loop(method, kids, list, i, total, depth) ==
    IF i > Len(list)
    THEN Outcome("none", None, total, <<>>, <<>>)
    ELSE LET got == Component_get(method, kids, list[i], depth - 1)
         IN  IF got.raised # "none" THEN got
             ELSE Composite_loop(method, kids, list, i + 1, total + got.returned, depth)

Folder_get_size(kids, folder) == Composite_get("get_size", kids, folder, RecursionLimit)

Department_get_salary(kids, department) ==
    Composite_get("get_salary", kids, department, RecursionLimit)

Department_get_employee_count(kids, department) ==
    Composite_get("get_employee_count", kids, department, RecursionLimit)

\* list.remove(item): the list without the first entry equal to item
RECURSIVE list_remove(_, _)
list_remove(list, item) ==
    IF list = <<>> THEN <<>>
    ELSE IF Head(list) = item THEN Tail(list)
    ELSE <<Head(list)>> \o list_remove(Tail(list), item)

\* the number of entries of all child lists
RECURSIVE Entries(_, _)
Entries(kids, composites) ==
    IF composites = {} THEN 0
    ELSE LET c == CHOOSE x \in composites : TRUE
         IN  Len(kids[c]) + Entries(kids, composites \ {c})

Folder_add(folder, item) ==
    /\ children' = [children EXCEPT ![folder] = Append(@, item)]
    /\ last' = Call("add", <<folder, item>>)
    /\ Shows(Outcome("none", None, None, <<>>, <<>>))

Folder_remove(folder, item) ==
    /\ children' = IF item \in Range(children[folder])
                   THEN [children EXCEPT ![folder] = list_remove(@, item)]
                   ELSE children
    /\ last' = Call("remove", <<folder, item>>)
    /\ Shows(Outcome("none", None, None, <<>>, <<>>))

Department_add(department, member) ==
    /\ children' = [children EXCEPT ![department] = Append(@, member)]
    /\ last' = Call("add", <<department, member>>)
    /\ Shows(Outcome("none", None, None, <<>>, <<>>))

Department_remove(department, member) ==
    /\ children' = IF member \in Range(children[department])
                   THEN [children EXCEPT ![department] = list_remove(@, member)]
                   ELSE children
    /\ last' = Call("remove", <<department, member>>)
    /\ Shows(Outcome("none", None, None, <<>>, <<>>))

\* item.get_size() of the client code, on a file or on a folder
Client_get_size(item) ==
    /\ last' = Call("get_size", <<item>>)
    /\ Shows(Component_get("get_size", children, item, RecursionLimit))
    /\ UNCHANGED children

Client_get_salary(unit) ==
    /\ last' = Call("get_salary", <<unit>>)
    /\ Shows(Component_get("get_salary", children, unit, RecursionLimit))
    /\ UNCHANGED children

Client_get_employee_count(unit) ==
    /\ last' = Call("get_employee_count", <<unit>>)
    /\ Shows(Component_get("get_employee_count", children, unit, RecursionLimit))
    /\ UNCHANGED children

CompositeInit == children = [c \in Composites |-> <<>>]

----------------------------------------------------------------------------
(* 8_template_method/1_recipe_system and 8_template_method/2_build_process *)

\* a printed line without a formatted value
Plain(line) == Text(line, None)

\* print(char * 60)
Rule(char) == Outcome("none", None, None, <<Text("{} * 60", char)>>, <<>>)

\* a method body that only prints (the pictographs of the lines are left out)
Prints(lines) ==
    Outcome("none", None, None, [i \in 1..Len(lines) |-> Plain(lines[i])], <<>>)

\* the statements of a method body one after the other
RECURSIVE InOrder(_)
InOrder(statements) ==
    IF statements = <<>> THEN Outcome("none", None, None, <<>>, <<>>)
    ELSE LET first == Head(statements)
             rest == InOrder(Tail(statements))
         IN  Outcome("none", None, rest.returned,
                     first.printed \o rest.printed, first.made \o rest.made)

\* the steps Recipe defines itself
Recipe ==
    [boil_water  |-> Prints(<<"1. Boiling water...">>),
     pour_in_cup |-> Prints(<<"3. Pouring into cup...">>)]

CoffeeRecipe ==
    [brew           |-> Prints(<<"2. Dripping coffee through filter...">>),
     add_condiments |-> Prints(<<"4. Adding sugar and milk...">>),
     get_name       |-> Returning(Prints(<<>>), "Coffee")]

TeaRecipe ==
    [brew           |-> Prints(<<"2. Steeping the tea...">>),
     add_condiments |-> Prints(<<"4. Adding lemon...">>),
     get_name       |-> Returning(Prints(<<>>), "Tea")]

SoupRecipe ==
    [boil_water     |-> Prints(<<"1. Boiling water in a pot...">>),
     brew           |-> Prints(<<"2. Adding vegetables and cooking...">>),
     pour_in_cup    |-> Prints(<<"3. Pouring soup into bowl...">>),
     add_condiments |-> Prints(<<"4. Adding salt, pepper, and herbs...">>),
     get_name       |-> Returning(Prints(<<>>), "Vegetable Soup")]

LatteRecipe ==
    [brew           |-> Prints(<<"2. Brewing espresso...", "   Steaming milk...">>),
     add_condiments |-> Prints(<<"4. Adding steamed milk foam...",
                                 "   Creating latte art...">>),
     get_name       |-> Returning(Prints(<<>>), "Latte")]

\* the steps BuildProcess defines itself
BuildProcess ==
    [run_tests |-> Prints(<<"3. Running tests...", "   All tests passed">>),
     deploy    |-> Prints(<<"5. Deploying to production...", "   Deployment successful">>)]

JavaBuild ==
    [fetch_dependencies |-> Prints(<<"1. Fetching dependencies with Maven...",
                                     "   Downloading: spring-boot, junit, lombok...",
                                     "   Dependencies resolved">>),
     compile   |-> Prints(<<"2. Compiling Java source files...",
                            "   javac -d target/classes src/main/java/**/*.java",
                            "   Compilation successful">>),
     run_tests |-> Prints(<<"3. Running JUnit tests...", "   mvn test",
                            "   All tests passed">>),
     package   |-> Prints(<<"4. Creating JAR package...", "   mvn package",
                            "   Created: target/app.jar">>),
     get_project_name |-> Returning(Prints(<<>>), "Java Application")]

PythonBuild ==
    [fetch_dependencies |-> Prints(<<"1. Installing dependencies with pip...",
                                     "   pip install -r requirements.txt",
                                     "   Installing: flask, pytest, requests...",
                                     "   Dependencies installed">>),
     compile   |-> Prints(<<"2. Checking Python syntax...",
                            "   python -m py_compile src/**/*.py",
                            "   Syntax check passed">>),
     run_tests |-> Prints(<<"3. Running pytest...", "   pytest tests/",
                            "   All tests passed">>),
     package   |-> Prints(<<"4. Creating wheel package...",
                            "   python setup.py bdist_wheel",
                            "   Created: dist/app-1.0.0-py3-none-any.whl">>),
     get_project_name |-> Returning(Prints(<<>>), "Python Application")]

JavaScriptBuild ==
    [fetch_dependencies |-> Prints(<<"1. Installing dependencies with npm...",
                                     "   npm install",
                                     "   Installing: react, webpack, jest...",
                                     "   Dependencies installed">>),
     compile   |-> Prints(<<"2. Bundling with Webpack...",
                            "   webpack --mode production",
                            "   Bundle created: dist/bundle.js">>),
     run_tests |-> Prints(<<"3. Running Jest tests...", "   npm test",
                            "   All tests passed">>),
     package   |-> Prints(<<"4. Creating production build...", "   npm run build",
                            "   Created: build/ directory">>),
     deploy    |-> Prints(<<"5. Deploying to CDN...", "   Uploading to AWS S3...",
                            "   Deployment successful">>),
     get_project_name |-> Returning(Prints(<<>>), "JavaScript Application")]

DockerBuild ==
    [fetch_dependencies |-> Prints(<<"1. Pulling base images...",
                                     "   docker pull node:18-alpine",
                                     "   Base image ready">>),
     compile   |-> Prints(<<"2. Building Docker image...",
                            "   docker build -t myapp:latest .",
                            "   Image built successfully">>),
     run_tests |-> Prints(<<"3. Running container tests...",
                            "   docker run --rm myapp:latest npm test",
                            "   All tests passed">>),
     package   |-> Prints(<<"4. Tagging and pushing image...",
                            "   docker tag myapp:latest registry.io/myapp:v1.0",
                            "   Image tagged">>),
     deploy    |-> Prints(<<"5. Deploying to Kubernetes...",
                            "   kubectl apply -f deployment.yaml",
                            "   Deployment successful">>),
     get_project_name |-> Returning(Prints(<<>>), "Docker Application")]

RecipeClasses == {"CoffeeRecipe", "TeaRecipe", "SoupRecipe", "LatteRecipe"}
BuildClasses == {"JavaBuild", "PythonBuild", "JavaScriptBuild", "DockerBuild"}

\* the methods a class defines itself
ClassBody(class) ==
    CASE class = "Recipe" -> Recipe
      [] class = "CoffeeRecipe" -> CoffeeRecipe
      [] class = "TeaRecipe" -> TeaRecipe
      [] class = "SoupRecipe" -> SoupRecipe
      [] class = "LatteRecipe" -> LatteRecipe
      [] class = "BuildProcess" -> BuildProcess
      [] class = "JavaBuild" -> JavaBuild
      [] class = "PythonBuild" -> PythonBuild
      [] class = "JavaScriptBuild" -> JavaScriptBuild
      [] class = "DockerBuild" -> DockerBuild

BaseClass(class) == IF class \in RecipeClasses THEN "Recipe" ELSE "BuildProcess"

\* the class whose definition self.method() runs on an object of class
Defining(class, method) ==
    IF method \in DOMAIN ClassBody(class) THEN class ELSE BaseClass(class)

\* self.method() on an object of class
Self(class, method) ==
    Calling(Invoke(Defining(class, method), method, <<>>),
            ClassBody(Defining(class, method))[method])

\* print(f"... {self.method()} ...")
PrintSelf(format, class, method) ==
    LET got == Self(class, method)
    IN  Outcome("none", None, None, <<Text(format, got.returned)>>, got.made)

\* variant: the cup is filled before the brewing
Recipe_prepare_recipe_pour_first(class) ==
    InOrder(<<PrintSelf("Preparing {}...", class, "get_name"),
              Rule("-"),
              Self(class, "boil_water"),
              Self(class, "pour_in_cup"),
              Self(class, "brew"),
              Self(class, "add_condiments"),
              PrintSelf("{} is ready!", class, "get_name")>>)

Recipe_prepare_recipe(class) ==
    InOrder(<<PrintSelf("Preparing {}...", class, "get_name"),
              Rule("-"),
              Self(class, "boil_water"),
              Self(class, "brew"),
              Self(class, "pour_in_cup"),
              Self(class, "add_condiments"),
              PrintSelf("{} is ready!", class, "get_name")>>)

BuildProcess_build(class) ==
    InOrder(<<PrintSelf("Building {}...", class, "get_project_name"),
              Rule("="),
              Self(class, "fetch_dependencies"),
              Self(class, "compile"),
              Self(class, "run_tests"),
              Self(class, "package"),
              Self(class, "deploy"),
              Rule("="),
              PrintSelf("Build completed for {}!", class, "get_project_name")>>)

\* recipe.prepare_recipe() of the script's loop
Client_prepare_recipe(class) ==
    /\ runs' = Append(runs, class)
    /\ last' = Call("prepare_recipe", <<class>>)
    /\ Shows(Recipe_prepare_recipe(class))

\* build.build() of the script's loop
Client_build(class) ==
    /\ runs' = Append(runs, class)
    /\ last' = Call("build", <<class>>)
    /\ Shows(BuildProcess_build(class))

TemplateInit == runs = <<>>

----------------------------------------------------------------------------
(* 5_factory/2_database_connections *)

\* the connections of the three managers of the script, by class
Connections == {"MySQLConnection", "PostgreSQLConnection", "MongoDBConnection"}

\* the queries of the script
QueryTexts == {"SELECT * FROM users LIMIT 2", "db.users.find().limit(2)"}

get_database_type(connection) ==
    CASE connection = "MySQLConnection" -> "MySQL"
      [] connection = "PostgreSQLConnection" -> "PostgreSQL"
      [] connection = "MongoDBConnection" -> "MongoDB"

\* self._host:self._port and self._database, self._user of the script's configs
Address(connection) ==
    CASE connection = "MySQLConnection" -> "localhost:3306"
      [] connection = "PostgreSQLConnection" -> "localhost:5432"
      [] connection = "MongoDBConnection" -> "localhost:27017"

Account(connection) ==
    CASE connection = "MySQLConnection" -> "Database: mydb, User: root"
      [] connection = "PostgreSQLConnection" -> "Database: mydb, User: postgres"
      [] connection = "MongoDBConnection" -> "Database: mydb, User: admin"

\* the rows execute_query returns, by their names
Rows(connection) ==
    CASE connection = "MySQLConnection" -> <<"John", "Jane">>
      [] connection = "PostgreSQLConnection" -> <<"Alice", "Bob">>
      [] connection = "MongoDBConnection" -> <<"Charlie", "Diana">>

\* a method of a connection: the flag it leaves and what the caller sees
Leaving(flag, done) == [connected |-> flag, done |-> done]

DatabaseConnection_connect(connection, flag) ==
    Leaving(TRUE,
           Outcome("none", None, TRUE,
                   <<Text("Connecting to " \o get_database_type(connection) \o " at {}",
                          Address(connection)),
                     Text("   {}", Account(connection)),
                     Plain(get_database_type(connection) \o " connection established")>>,
                   <<>>))

\* variant: the query runs whatever the flag says
DatabaseConnection_execute_query_unchecked(connection, flag, query) ==
    Leaving(flag,
           Outcome("none", None, Rows(connection),
                   <<Text("Executing " \o get_database_type(connection) \o " query: {}",
                          query)>>,
                   <<>>))

DatabaseConnection_execute_query(connection, flag, query) ==
    IF ~flag
    THEN Leaving(flag, Outcome("ConnectionError", "Not connected to database", None,
                              <<>>, <<>>))
    ELSE Leaving(flag,
                Outcome("none", None, Rows(connection),
                        <<Text("Executing " \o get_database_type(connection) \o " query: {}",
                               query)>>,
                        <<>>))

DatabaseConnection_close(connection, flag) ==
    IF flag
    THEN Leaving(FALSE,
                Outcome("none", None, TRUE,
                        <<Plain("Closing " \o get_database_type(connection) \o " connection")>>,
                        <<>>))
    ELSE Leaving(flag, Outcome("none", None, FALSE, <<>>, <<>>))

\* connect; try: execute_query, print the rows; finally: close
DatabaseManager_run_query(connection, flag, query) ==
    LET opened == DatabaseConnection_connect(connection, flag)
        queried == DatabaseConnection_execute_query(connection, opened.connected, query)
        rows == queried.done.returned
        shown == IF queried.done.raised # "none" THEN <<>>
                 ELSE <<Text("Results from {}:", get_database_type(connection))>>
                      \o [i \in 1..Len(rows) |-> Text("   {}", rows[i])]
        named == IF queried.done.raised # "none" THEN <<>>
                 ELSE <<Invoke(connection, "get_database_type", <<>>)>>
        closed == DatabaseConnection_close(connection, queried.connected)
    IN  Leaving(closed.connected,
               Outcome(queried.done.raised, queried.done.message, None,
                       opened.done.printed \o queried.done.printed \o shown
                           \o closed.done.printed,
                       <<Invoke(connection, "connect", <<>>),
                         Invoke(connection, "execute_query", <<query>>)>>
                           \o named \o <<Invoke(connection, "close", <<>>)>>))

\* a call of the client code on a connection or on its manager
OnConnection(connection, op, args, left, called) ==
    /\ connected' = [connected EXCEPT ![connection] = left.connected]
    /\ lifecycle' = [lifecycle EXCEPT ![connection] = called]
    /\ last' = Call(op, <<connection>> \o args)
    /\ Shows(left.done)

Client_connect(connection) ==
    OnConnection(connection, "connect", <<>>,
                 DatabaseConnection_connect(connection, connected[connection]),
                 "connect")

Client_execute_query(connection, query) ==
    OnConnection(connection, "execute_query", <<query>>,
                 DatabaseConnection_execute_query(connection, connected[connection], query),
                 lifecycle[connection])

Client_close(connection) ==
    OnConnection(connection, "close", <<>>,
                 DatabaseConnection_close(connection, connected[connection]),
                 "close")

Client_run_query(connection, query) ==
    OnConnection(connection, "run_query", <<query>>,
                 DatabaseManager_run_query(connection, connected[connection], query),
                 "close")

DatabaseInit ==
    /\ connected = [c \in Connections |-> FALSE]
    /\ lifecycle = [c \in Connections |-> "none"]

----------------------------------------------------------------------------
(* Specifications *)

vars == <<example, callVars, returnVars, vendingVars, observerVars, musicVars,
          trafficVars, strategyVars, decoratorVars, adapterVars, factoryVars,
    compositeVars, templateVars, databaseVars>>

\* what a call on the vending machine, on an observer subject, ... leaves alone
notVending == <<example, returnVars, observerVars, musicVars, trafficVars, strategyVars,
    decoratorVars, adapterVars, factoryVars,
    compositeVars, templateVars, databaseVars>>
notObserver == <<example, returnVars, vendingVars, musicVars, trafficVars, strategyVars,
    decoratorVars, adapterVars, factoryVars,
    compositeVars, templateVars, databaseVars>>
notMusic == <<example, result, vendingVars, observerVars, trafficVars, strategyVars,
    decoratorVars, adapterVars, factoryVars,
    compositeVars, templateVars, databaseVars>>
notTraffic == <<example, vendingVars, observerVars, musicVars, strategyVars,
    decoratorVars, adapterVars, factoryVars,
    compositeVars, templateVars, databaseVars>>
notStrategy == <<example, vendingVars, observerVars, musicVars, trafficVars,
    decoratorVars, adapterVars, factoryVars,
    compositeVars, templateVars, databaseVars>>
notDecorator == <<example, vendingVars, observerVars, musicVars, trafficVars,
    strategyVars, adapterVars, factoryVars,
    compositeVars, templateVars, databaseVars>>
notAdapter == <<example, vendingVars, observerVars, musicVars, trafficVars,
    strategyVars, decoratorVars, factoryVars,
    compositeVars, templateVars, databaseVars>>
notFactory == <<example, client_call, vendingVars, observerVars, musicVars, trafficVars,
    strategyVars, decoratorVars,
    compositeVars, templateVars, databaseVars>>

notComposite == <<example, client_call, vendingVars, observerVars, musicVars, trafficVars,
    strategyVars, decoratorVars, factoryVars, templateVars, databaseVars>>
notTemplate == <<example, client_call, vendingVars, observerVars, musicVars, trafficVars,
    strategyVars, decoratorVars, factoryVars, compositeVars, databaseVars>>
notDatabase == <<example, client_call, vendingVars, observerVars, musicVars, trafficVars,
    strategyVars, decoratorVars, factoryVars, compositeVars, templateVars>>

\* the state every example starts from
Constructed ==
    /\ last = NoCall
    /\ out = <<>>
    /\ raised = "none"
    /\ result = None
    /\ effects = <<>>
    /\ VendingInit
    /\ ObserverInit
    /\ MusicInit
    /\ TrafficInit
    /\ StrategyInit
    /\ DecoratorInit
    /\ AdapterInit
    /\ FactoryInit
    /\ CompositeInit
    /\ TemplateInit
    /\ DatabaseInit

InitVending ==
    /\ example = "vending_machine"
    /\ Constructed

\* a call on the machine in a run that keeps no log
Unlogged(call) ==
    /\ call
    /\ UNCHANGED <<calls, trail, notVending>>

\* a call on the machine in a run that logs its calls
Logged(call) ==
    /\ Len(calls) < MaxCalls
    /\ call
    /\ calls' = Append(calls, last')
    /\ trail' = Append(trail, state')
    /\ UNCHANGED notVending

NextVending ==
    \/ \E amount \in Amounts :
          money + amount <= 50 * MaxMoney /\ Unlogged(VendingMachine_insert_money(amount))
    \/ Unlogged(VendingMachine_eject_money)
    \/ \E product \in ProductNames : Unlogged(VendingMachine_select_product(product))
    \/ Unlogged(VendingMachine_dispense)

SpecVending == InitVending /\ [][NextVending]_vars

NextVendingRun ==
    \/ \E amount \in Amounts :
          money + amount <= 50 * MaxMoney /\ Logged(VendingMachine_insert_money(amount))
    \/ Logged(VendingMachine_eject_money)
    \/ \E product \in ProductNames : Logged(VendingMachine_select_product(product))
    \/ Logged(VendingMachine_dispense)

SpecVendingRun == InitVending /\ [][NextVendingRun]_vars

InitObserver ==
    /\ example \in {"stock_market", "weather_station", "youtube_channel"}
    /\ Constructed

\* a call on the subject of the script that is running
OnSubject(script, call) ==
    /\ example = script
    /\ call
    /\ UNCHANGED notObserver

NextObserver ==
    \/ \E o \in StockObservers : OnSubject("stock_market", StockPrice_attach(o))
    \/ \E o \in StockObservers : OnSubject("stock_market", StockPrice_detach(o))
    \/ OnSubject("stock_market", StockPrice_notify)
    \/ \E p \in StockPrices : OnSubject("stock_market", StockPrice_set_price(p))
    \/ \E o \in WeatherObservers : OnSubject("weather_station", WeatherStation_attach(o))
    \/ \E o \in WeatherObservers : OnSubject("weather_station", WeatherStation_detach(o))
    \/ OnSubject("weather_station", WeatherStation_notify)
    \/ \E t \in Temperatures, h \in Humidities, p \in Pressures :
          OnSubject("weather_station", WeatherStation_set_measurements(t, h, p))
    \/ \E o \in Subscribers :
          /\ Len(subscribers) < MaxSubscribers
          /\ OnSubject("youtube_channel", YoutubeChannel_attach(o))
    \/ \E o \in Subscribers : OnSubject("youtube_channel", YoutubeChannel_detach(o))
    \/ \E t \in Titles : OnSubject("youtube_channel", YoutubeChannel_notify(t))
    \/ \E t \in Titles :
          /\ Len(videos) < MaxVideos
          /\ OnSubject("youtube_channel", YoutubeChannel_upload_video(t))

SpecObserver == InitObserver /\ [][NextObserver]_vars

InitMusic ==
    /\ example = "music_player"
    /\ Constructed

\* a click on the player; no click raises
Click(click) ==
    /\ Len(clicks) < MaxClicks
    /\ click
    /\ clicks' = Append(clicks, last'.op)
    /\ raised' = "none"
    /\ UNCHANGED notMusic

NextMusic ==
    \/ Click(MusicPlayer_click_play)
    \/ Click(MusicPlayer_click_lock)
    \/ Click(MusicPlayer_click_next)
    \/ Click(MusicPlayer_click_previous)

SpecMusic == InitMusic /\ [][NextMusic]_vars

InitTraffic ==
    /\ example = "traffic_light"
    /\ Constructed

NextTraffic ==
    \/ /\ changes < MaxChanges
       /\ TrafficLight_change_state
       /\ UNCHANGED notTraffic
    \/ \E cycles \in 0..MaxCycles :
          /\ changes + 3 * cycles <= MaxChanges
          /\ TrafficLight_start(cycles)
          /\ UNCHANGED notTraffic

SpecTraffic == InitTraffic /\ [][NextTraffic]_vars

InitStrategy ==
    /\ example \in {"payment_processing", "sorting_algorithms"}
    /\ Constructed

\* a call on the context of the script that is running
OnContext(script, call) ==
    /\ example = script
    /\ call
    /\ UNCHANGED notStrategy

NextStrategy ==
    \/ \E s \in PaymentStrategies :
          OnContext("payment_processing", PaymentProcessor_set_strategy(s))
    \/ \E amount \in PaymentAmounts :
          OnContext("payment_processing", PaymentProcessor_process_payment(amount))
    \/ \E s \in SortStrategies :
          OnContext("sorting_algorithms", DataSorter_set_strategy(s))
    \/ \E data \in SortInputs :
          OnContext("sorting_algorithms", DataSorter_sort_data(data))

SpecStrategy == InitStrategy /\ [][NextStrategy]_vars

InitDecorator ==
    /\ example \in {"coffee_shop", "middleware"}
    /\ Constructed

\* a call in the script that is running
InScript(script, call) ==
    /\ example = script
    /\ call
    /\ UNCHANGED notDecorator

NextDecorator ==
    \/ \E d \in AddOns :
          /\ Len(beverage) < MaxWraps
          /\ InScript("coffee_shop", BeverageDecorator_init(d))
    \/ InScript("coffee_shop", Beverage_get_cost)
    \/ InScript("coffee_shop", Beverage_get_description)
    \/ \E class \in MiddlewareClasses :
          /\ Len(handler) < MaxLayers
          /\ InScript("middleware", Middleware_init(class))
    \/ \E request \in Requests :
          InScript("middleware", App_handle_request(request))

SpecDecorator == InitDecorator /\ [][NextDecorator]_vars

\* the adapter objects are built once; the client's call is drawn at the start
InitAdapter ==
    /\ example \in {"media_player", "payment_gateway"}
    /\ last = NoCall /\ out = <<>> /\ raised = "none" /\ result = None /\ effects = <<>>
    /\ VendingInit /\ ObserverInit /\ MusicInit /\ TrafficInit /\ StrategyInit
    /\ DecoratorInit /\ FactoryInit
    /\ CompositeInit /\ TemplateInit /\ DatabaseInit
    /\ message = None
    /\ example = "media_player" => client_call \in MediaPlayerCalls
    /\ example = "payment_gateway" => client_call \in PaymentGatewayCalls

NextAdapter ==
    \/ /\ example = "media_player"
       /\ Client_play
       /\ UNCHANGED notAdapter
    \/ /\ example = "payment_gateway"
       /\ Client_stripe_process_payment
       /\ UNCHANGED notAdapter
    \/ /\ example = "payment_gateway"
       /\ Client_paypal_process_payment
       /\ UNCHANGED notAdapter
    \/ /\ example = "payment_gateway"
       /\ Client_square_process_payment
       /\ UNCHANGED notAdapter

SpecAdapter == InitAdapter /\ [][NextAdapter]_vars

InitFactory ==
    /\ example \in {"ui_components"}
    /\ Constructed

\* a call of the client code of a factory example
InFactoryScript(script, call) ==
    /\ example = script
    /\ call
    /\ UNCHANGED notFactory

NextFactory ==
    \/ \E os_type \in OSKeys :
          InFactoryScript("ui_components", Client_get_ui_factory(os_type))
    \/ \E os_type \in OSKeys :
          /\ Len(apps) < MaxApps
          /\ InFactoryScript("ui_components", Application_init(os_type))
    \/ \E i \in 1..Len(apps) :
          InFactoryScript("ui_components", Application_create_ui(i))
    \/ \E i \in 1..Len(apps) :
          InFactoryScript("ui_components", Application_render_ui(i))
    \/ \E i \in 1..Len(apps) :
          InFactoryScript("ui_components", Application_interact(i))

SpecFactory == InitFactory /\ [][NextFactory]_vars

InitComposite ==
    /\ example \in {"file_system", "organization_chart"}
    /\ Constructed

\* a call of the client code of a composite example
InCompositeScript(script, call) ==
    /\ example = script
    /\ call
    /\ UNCHANGED notComposite

NextComposite ==
    \/ \E folder \in Folders, item \in Folders \cup Files :
          /\ Entries(children, Composites) < MaxChildren
          /\ InCompositeScript("file_system", Folder_add(folder, item))
    \/ \E folder \in Folders, item \in Folders \cup Files :
          InCompositeScript("file_system", Folder_remove(folder, item))
    \/ \E item \in Folders \cup Files :
          InCompositeScript("file_system", Client_get_size(item))
    \/ \E department \in Departments, member \in Departments \cup Employees :
          /\ Entries(children, Composites) < MaxChildren
          /\ InCompositeScript("organization_chart", Department_add(department, member))
    \/ \E department \in Departments, member \in Departments \cup Employees :
          InCompositeScript("organization_chart", Department_remove(department, member))
    \/ \E unit \in Departments \cup Employees :
          InCompositeScript("organization_chart", Client_get_salary(unit))
    \/ \E unit \in Departments \cup Employees :
          InCompositeScript("organization_chart", Client_get_employee_count(unit))

SpecComposite == InitComposite /\ [][NextComposite]_vars

InitTemplate ==
    /\ example \in {"recipe_system", "build_process"}
    /\ Constructed

NextTemplate ==
    \/ \E class \in RecipeClasses :
          /\ example = "recipe_system"
          /\ Len(runs) < MaxRuns
          /\ Client_prepare_recipe(class)
          /\ UNCHANGED notTemplate
    \/ \E class \in BuildClasses :
          /\ example = "build_process"
          /\ Len(runs) < MaxRuns
          /\ Client_build(class)
          /\ UNCHANGED notTemplate

SpecTemplate == InitTemplate /\ [][NextTemplate]_vars

InitDatabase ==
    /\ example \in {"database_connections"}
    /\ Constructed

NextDatabase ==
    \/ \E connection \in Connections :
          Client_connect(connection) /\ UNCHANGED notDatabase
    \/ \E connection \in Connections, query \in QueryTexts :
          Client_execute_query(connection, query) /\ UNCHANGED notDatabase
    \/ \E connection \in Connections :
          Client_close(connection) /\ UNCHANGED notDatabase
    \/ \E connection \in Connections, query \in QueryTexts :
          Client_run_query(connection, query) /\ UNCHANGED notDatabase

SpecDatabase == InitDatabase /\ [][NextDatabase]_vars

----------------------------------------------------------------------------
(* Properties of the vending machine *)

\* the amount of change the most recent call reported (0: no change line)
ReportedChange ==
    IF \E i \in 1..Len(out) : out[i].msg = "Returning change"
    THEN (CHOOSE l \in {out[i] : i \in 1..Len(out)} : l.msg = "Returning change").amount
    ELSE 0

\* C1: on a new machine, insert_money(m), select_product(p), dispense() with p
\* in stock and price(p) <= m visits NoMoneyState, HasMoneyState, SoldState,
\* NoMoneyState in that order, reports the change m - price(p) and ends with
\* money 0, nothing selected, one p less in stock and every other stock as
\* it was.
PurchasePath ==
    \A m \in Amounts, p \in DOMAIN InitialProducts :
        ( /\ Len(calls) >= 3
          /\ IsCall(calls[1], "insert_money", <<m>>)
          /\ IsCall(calls[2], "select_product", <<p>>)
          /\ IsCall(calls[3], "dispense", <<>>)
          /\ InitialProducts[p].stock > 0
          /\ InitialProducts[p].price <= m )
        => /\ SubSeq(trail, 1, 4) =
                <<"NoMoneyState", "HasMoneyState", "SoldState", "NoMoneyState">>
           /\ Len(calls) = 3 =>
                /\ out[1] = Line("Dispensing", p, 0)
                /\ ReportedChange = m - InitialProducts[p].price
                /\ (Len(out) = 2) = (m > InitialProducts[p].price)
                /\ raised = "none"
                /\ money = 0
                /\ selected_product = None
                /\ products = [InitialProducts EXCEPT ![p].stock = @ - 1]

\* $2.00 inserted, Coke ($1.50) selected and dispensed: change $0.50
PurchasePathReached ==
    /\ Len(calls) = 3
    /\ IsCall(calls[1], "insert_money", <<200>>)
    /\ IsCall(calls[2], "select_product", <<"Coke">>)
    /\ IsCall(calls[3], "dispense", <<>>)
    /\ trail = <<"NoMoneyState", "HasMoneyState", "SoldState", "NoMoneyState">>
    /\ out = <<Line("Dispensing", "Coke", 0), Line("Returning change", None, 50)>>
    /\ products["Coke"].stock = 4

\* C2: in HasMoneyState, select_product(p) of a known product that costs more
\* than the money held keeps the state, the money, the selection and the
\* stock, and reports the shortfall price(p) - money.
InsufficientFunds ==
    [][ \A p \in DOMAIN products :
          ( /\ state = "HasMoneyState"
            /\ IsCall(last', "select_product", <<p>>)
            /\ products[p].price > money )
          => /\ state' = "HasMoneyState"
             /\ money' = money
             /\ selected_product' = selected_product
             /\ products' = products
             /\ raised' = "none"
             /\ out' = <<Line("Insufficient funds. Need more", None,
                              products[p].price - money)>> ]_vars

\* $1.50 held, Chips ($2.00) asked for: 50 cents short
InsufficientFundsReached ==
    /\ state = "HasMoneyState"
    /\ money = 150
    /\ IsCall(last, "select_product", <<"Chips">>)
    /\ out = <<Line("Insufficient funds. Need more", None, 50)>>

\* C3: a funded customer whose selection is rejected as out of stock loses
\* no stock and no money: the inserted amount is still held after the
\* rejection and the eject_money() that follows returns it.
OutOfStockReturnsMoney ==
    [][ /\ ( /\ state = "SoldState"
             /\ ~has_product(selected_product)
             /\ IsCall(last', "dispense", <<>>) )
          => /\ products' = products
             /\ money' = money
        /\ ( /\ IsCall(last, "dispense", <<>>)
             /\ Len(out) = 1
             /\ out[1].msg = "is out of stock"
             /\ IsCall(last', "eject_money", <<>>) )
          => /\ out' = <<Line("Ejecting", None, money)>>
             /\ money' = 0 ]_vars

\* the calls that are not meaningful in the active state
NotMeaningful(st, call) ==
    \/ /\ st = "NoMoneyState"
       /\ call.op \in {"eject_money", "select_product", "dispense"}
    \/ /\ st = "HasMoneyState"
       /\ \/ call.op = "dispense"
          \/ call.op = "select_product" /\ call.args[1] \notin DOMAIN products
    \/ /\ st = "SoldState"
       /\ call.op \in {"insert_money", "eject_money", "select_product"}

\* C4: a call that is not meaningful in the active state changes neither the
\* state, nor the money, nor the selection, nor any stock.
NotMeaningfulIsNoOp ==
    [][ NotMeaningful(state, last') => UNCHANGED machineVars ]_vars

\* money inserted while an order is processed: refused, $2.00 still held
NotMeaningfulReached ==
    /\ state = "SoldState"
    /\ IsCall(last, "insert_money", <<100>>)
    /\ out = <<Line("Please wait, processing your order", None, 0)>>
    /\ money = 200

\* C5: no call on the machine raises; a rejection is a printed message.
NoCallRaises ==
    /\ raised = "none"
    /\ last.op # "none" => Len(out) >= 1

\* the four rejections, each answered by a message
IsRejection ==
    /\ Len(out) = 1
    /\ out[1].msg \in {"Please insert money first", "not available",
                       "Insufficient funds. Need more", "is out of stock"}

\* an unknown product was asked for and refused, the machine still holds the money
RejectionReached ==
    /\ IsRejection
    /\ IsCall(last, "select_product", <<"Gum">>)
    /\ state = "HasMoneyState"
    /\ raised = "none"

\* C26: whenever the active state is NoMoneyState the money held is 0 and no
\* product is selected, so $1.00 inserted into a machine in NoMoneyState
\* followed by the selection of the $2.00 Chips reports insufficient funds.
NoMoneyIsStart ==
    [][ /\ state' = "NoMoneyState" => money' = 0 /\ selected_product' = None
        /\ ( /\ IsCall(last, "insert_money", <<100>>)
             /\ out = <<Line("Inserted", None, 100)>>
             /\ IsCall(last', "select_product", <<"Chips">>) )
           => /\ Len(out') = 1
              /\ out'[1].msg = "Insufficient funds. Need more" ]_vars

\* C27: in SoldState a product of the machine is selected and the money held
\* is at least its price; a dispense that hands the product out reports the
\* change money - price, which is never negative.
PaidInFull ==
    [][ /\ state' = "SoldState" =>
              /\ selected_product' \in DOMAIN products'
              /\ money' >= products'[selected_product'].price
        /\ (last'.op = "dispense" /\ products' # products) =>
              /\ money >= products[selected_product].price
              /\ ReportedChange' = money - products[selected_product].price ]_vars

\* Chips selected with exactly $2.00 held: sold, no change due
PaidExactlyReached ==
    /\ state = "SoldState"
    /\ selected_product = "Chips"
    /\ money = 200
    /\ IsCall(last, "select_product", <<"Chips">>)

\* C28: no stock is ever negative or grows; a stock changes only in a
\* dispense called in SoldState, for the selected product only, by exactly
\* 1, and only when it was greater than 0.
StockSafety ==
    [][ /\ DOMAIN products' = DOMAIN products
        /\ \A p \in DOMAIN products :
              /\ products'[p].stock >= 0
              /\ products'[p].stock <= products[p].stock
              /\ products'[p].stock # products[p].stock =>
                    /\ state = "SoldState"
                    /\ last'.op = "dispense"
                    /\ p = selected_product
                    /\ products[p].stock > 0
                    /\ products'[p].stock = products[p].stock - 1 ]_vars

\* the last Pepsi is gone and the next customer's Pepsi is refused
LastOneSoldReached ==
    /\ products["Pepsi"].stock = 0
    /\ selected_product = "Pepsi"
    /\ IsCall(last, "dispense", <<>>)
    /\ out = <<Line("is out of stock", "Pepsi", 0)>>

----------------------------------------------------------------------------
(* Properties of the observer subjects *)

\* the list notify iterates over, for the subject of the running script
Attached == IF example = "youtube_channel" THEN subscribers ELSE observers

\* the number of update() calls the most recent call made on observer o
Deliveries(o) == Cardinality({i \in 1..Len(updates) : updates[i].observer = o})

\* no element occurs twice in the list
NoDuplicates(list) ==
    \A i, j \in 1..Len(list) : list[i] = list[j] => i = j

\* C6: the observer list of StockPrice and of WeatherStation never holds an
\* observer twice, so a notify delivers one update to each attached observer,
\* also to one that was attached twice.
ObserversUnique ==
    example \in {"stock_market", "weather_station"} =>
        /\ NoDuplicates(observers)
        /\ last.op = "notify" =>
              \A o \in Range(observers) : Deliveries(o) = 1

\* trader1 attached a second time: nothing printed, still listed once
AttachedTwiceReached ==
    /\ example = "stock_market"
    /\ IsCall(last, "attach", <<"trader1">>)
    /\ out = <<>>
    /\ observers = <<"trader2", "trader1">>

\* C7: YoutubeChannel.attach adds an observer only if it is not yet in the
\* subscriber list, so a subscriber attached twice gets one update per
\* notify or upload_video.
SubscribersUnique ==
    example = "youtube_channel" =>
        /\ NoDuplicates(subscribers)
        /\ last.op \in {"notify", "upload_video"} =>
              \A o \in Range(subscribers) : Deliveries(o) = 1

\* the step notifies the observers of StockPrice or WeatherStation
Notifies ==
    \/ last'.op \in {"notify", "set_measurements"}
    \/ last'.op = "set_price" /\ last'.args[1] # price

\* the step takes o, and nothing else, out of the observer list
RemovesOnly(o) ==
    /\ observers' = SelectSeq(observers, LAMBDA x : x # o)
    /\ (~Contains(observers, o)) => (observers' = observers)
    /\ raised' = "none"

\* the step calls update on the listed observers, in list order
DeliversToListed ==
    /\ observers' = observers
    /\ [i \in 1..Len(updates') |-> updates'[i].observer] = observers

\* an observer that enters the list in the step is the one being attached
EntersByAttach ==
    \A o \in Range(observers') \ Range(observers) : IsCall(last', "attach", <<o>>)

\* C8: for StockPrice and WeatherStation, detach(o) takes o out of the list
\* and keeps the other observers in their order (nothing changes when o is
\* not attached), every notify delivers to the listed observers in list
\* order, and an observer enters the list only by its own attach; so after
\* detach(o) the notifies go to the remaining observers in attachment order
\* and not to o until o is attached again.
DetachKeepsOthers ==
    [][ (example \in {"stock_market", "weather_station"}) =>
          ( /\ (last'.op = "detach") => RemovesOnly(last'.args[1])
            /\ Notifies => DeliversToListed
            /\ EntersByAttach ) ]_vars

\* trader2 detached: trader1 and analyst remain, in that order
DetachReached ==
    /\ example = "stock_market"
    /\ IsCall(last, "detach", <<"trader2">>)
    /\ out = <<Line("unsubscribed from", "trader2", 0)>>
    /\ observers = <<"trader1", "analyst">>

\* C9: YoutubeChannel.detach of an observer that is not subscribed raises
\* nothing and leaves the subscriber list as it is.
DetachAbsentSubscriber ==
    [][ ( /\ example = "youtube_channel"
          /\ last'.op = "detach"
          /\ ~Contains(subscribers, last'.args[1]) )
        => /\ raised' = "none"
           /\ subscribers' = subscribers ]_vars

\* the data is the state of the subject (notify leaves the state as it is)
IsSubjectState(data) ==
    CASE example = "stock_market" ->
            data = <<StockSymbol, price, price - previous_price>>
      [] example = "weather_station" ->
            /\ data.temperature = temperature
            /\ data.humidity = humidity
            /\ data.pressure = pressure
      [] example = "youtube_channel" ->
            data = <<ChannelName, last.args[1]>>

\* C10: a notify of StockPrice, WeatherStation or YoutubeChannel calls update
\* once on every attached observer, in attachment order, and hands every
\* observer the same data, the state of the subject.
NotifyDelivers ==
    last.op = "notify" =>
        /\ [i \in 1..Len(updates) |-> updates[i].observer] = Attached
        /\ \A o \in Range(Attached) : Deliveries(o) = 1
        /\ \A i, j \in 1..Len(updates) : updates[i].data = updates[j].data
        /\ \A i \in 1..Len(updates) : IsSubjectState(updates[i].data)

\* the step is set_price(new) on a StockPrice whose price is old
SetPriceEffect(new, old) ==
    IF new # old
    THEN /\ previous_price' = old
         /\ price' = new
         /\ observers' = observers
         /\ updates' = [i \in 1..Len(observers) |->
                          Update(observers[i], <<StockSymbol, new, new - old>>)]
    ELSE /\ price' = price
         /\ previous_price' = previous_price
         /\ updates' = <<>>

\* C11: set_price(new) with new different from the price moves the price to
\* the previous price, stores new and then notifies, so every observer gets
\* the new price and the change new - old; set_price of the current price
\* changes no field and notifies nobody.
SetPriceThenNotify ==
    [][ (example = "stock_market" /\ last'.op = "set_price")
        => SetPriceEffect(last'.args[1], price) ]_vars

\* 150 -> 155 with two observers attached: both get (AAPL, 155, +5)
SetPriceReached ==
    /\ example = "stock_market"
    /\ IsCall(last, "set_price", <<155>>)
    /\ price = 155
    /\ previous_price = 150
    /\ updates = << Update("trader1", <<"AAPL", 155, 5>>),
                    Update("analyst", <<"AAPL", 155, 5>>) >>

\* the step is set_measurements(t, h, p): the three fields hold the new
\* values and every attached observer, in order, gets one update with them
SetMeasurementsEffect(t, h, p) ==
    /\ temperature' = t /\ humidity' = h /\ pressure' = p
    /\ observers' = observers
    /\ Len(updates') = Len(observers)
    /\ \A i \in 1..Len(observers) :
          /\ updates'[i].observer = observers[i]
          /\ updates'[i].data.temperature = t
          /\ updates'[i].data.humidity = h
          /\ updates'[i].data.pressure = p
    /\ \A i, j \in 1..Len(updates') : updates'[i].data = updates'[j].data

\* C24: every set_measurements(t, h, p) stores t, h, p and then calls update
\* once on every attached observer with data carrying t, h, p, also when
\* t, h, p equal the measurements held before the call.
SetMeasurementsNotifies ==
    [][ (example = "weather_station" /\ last'.op = "set_measurements")
        => SetMeasurementsEffect(last'.args[1], last'.args[2], last'.args[3]) ]_vars

\* two displays were told of the measurements 25.0, 65.0, 1013.2
MeasurementsDeliveredReached ==
    /\ example = "weather_station"
    /\ IsCall(last, "set_measurements", <<250, 650, 10132>>)
    /\ temperature = 250 /\ humidity = 650 /\ pressure = 10132
    /\ observers = <<"current_display", "stats_display">>
    /\ Len(updates) = 2
    /\ updates[2].observer = "stats_display"
    /\ updates[2].data.temperature = 250

----------------------------------------------------------------------------
(* Properties of the music player and the traffic light *)

\* what the click c does to a player whose active state is st
ClickEffect(st, c) ==
    CASE st = "StoppedState" /\ c = "click_play" ->
            /\ playing' = TRUE
            /\ player_state' = "PlayingState"
            /\ effects' = <<"start_playback", "change_state">>
            /\ current_track' = current_track
      [] st = "PlayingState" /\ c = "click_play" ->
            /\ playing' = FALSE
            /\ player_state' = "StoppedState"
            /\ effects' = <<"stop_playback", "change_state">>
            /\ current_track' = current_track
      [] st \in {"PlayingState", "StoppedState"} /\ c = "click_lock" ->
            /\ player_state' = "LockedState"
            /\ UNCHANGED <<playing, current_track>>
      [] st = "LockedState" /\ c = "click_lock" ->
            /\ player_state' = (IF playing THEN "PlayingState" ELSE "StoppedState")
            /\ UNCHANGED <<playing, current_track>>
      [] st = "LockedState" /\ c \in {"click_play", "click_next", "click_previous"} ->
            UNCHANGED <<player_state, playing, current_track>>
      [] st = "StoppedState" /\ c \in {"click_next", "click_previous"} ->
            UNCHANGED <<player_state, playing, current_track>>
      [] st = "PlayingState" /\ c \in {"click_next", "click_previous"} ->
            player_state' = player_state

\* C12: every click is handled by the state that is active when it is made,
\* with the transition following the handler's action: play in Stopped
\* starts playback, then Playing; play in Playing stops playback, then
\* Stopped; lock in Playing or Stopped gives Locked; lock in Locked gives
\* Playing if playback runs and Stopped otherwise; play, next, previous in
\* Locked and next, previous in Stopped change nothing; nothing else changes
\* the state.
ClicksFollowTable ==
    [][ example = "music_player" => ClickEffect(player_state, last'.op) ]_vars

\* play, lock, lock: locked while playing and unlocked back to Playing
UnlockedToPlayingReached ==
    /\ clicks = <<"click_play", "click_lock", "click_lock">>
    /\ player_state = "PlayingState"
    /\ playing
    /\ out = <<Line("Unlocked -> Playing", None, 0)>>

\* the flag agrees with the state and the track is one of the playlist
PlayerConsistent ==
    /\ player_state = "PlayingState" => playing
    /\ player_state = "StoppedState" => ~playing
    /\ current_track \in 0..2

\* the track moves one step round the playlist, and only on click_next and
\* click_previous while playing
TrackMoves ==
    /\ (player_state = "PlayingState" /\ last'.op = "click_next") =>
          current_track' = (IF current_track = 2 THEN 0 ELSE current_track + 1)
    /\ (player_state = "PlayingState" /\ last'.op = "click_previous") =>
          current_track' = (IF current_track = 0 THEN 2 ELSE current_track - 1)
    /\ current_track' # current_track =>
          /\ player_state = "PlayingState"
          /\ last'.op \in {"click_next", "click_previous"}

\* the lock keeps in the flag which state it was entered from, and the
\* unlock goes back there
LockRemembers ==
    /\ (player_state # "LockedState" /\ player_state' = "LockedState") =>
          /\ last'.op = "click_lock"
          /\ playing' = (player_state = "PlayingState")
    /\ (player_state = "LockedState" /\ player_state' = "LockedState") =>
          playing' = playing
    /\ (player_state = "LockedState" /\ player_state' # "LockedState") =>
          /\ last'.op = "click_lock"
          /\ player_state' = (IF playing THEN "PlayingState" ELSE "StoppedState")
    /\ (out = <<Line("Locked (while playing)", None, 0)>> /\ last'.op = "click_lock") =>
          player_state' = "PlayingState"
    /\ (out = <<Line("Locked (while stopped)", None, 0)>> /\ last'.op = "click_lock") =>
          player_state' = "StoppedState"

\* C30: over every sequence of clicks the playing flag is true in
\* PlayingState and false in StoppedState; the track index stays in 0..2,
\* wraps round at both ends and changes only by click_next and
\* click_previous in PlayingState; a lock followed by an unlock returns to
\* the state the player was in before the lock.
PlayerInvariant ==
    [][ example = "music_player" =>
          PlayerConsistent' /\ TrackMoves /\ LockRemembers ]_vars

\* play, then previous from the first track: the last track plays
WrappedBackReached ==
    /\ clicks = <<"click_play", "click_previous">>
    /\ player_state = "PlayingState"
    /\ playing
    /\ current_track = 2

\* locked while stopped, clicked in vain, unlocked: stopped again
UnlockedToStoppedReached ==
    /\ clicks = <<"click_lock", "click_play", "click_lock">>
    /\ player_state = "StoppedState"
    /\ ~playing

\* the fixed order of the lights
LightOrder == <<"RedState", "GreenState", "YellowState">>

\* the light that is on after k state changes of a new traffic light
LightOnAfter(k) == LightOrder[(k % 3) + 1]

\* start(n) on a red light: 3n state changes, red again, cycle count n
\* (start(0) runs no cycle and leaves the count of the cycles run before)
StartEffect(n) ==
    /\ changes' = changes + 3 * n
    /\ effects' = [k \in 1..(3 * n) |-> "change_state"]
    /\ light_state' = "RedState"
    /\ cycle_count' = (IF n >= 1 THEN n ELSE cycle_count)

----------------------------------------------------------------------------
(* Properties of the strategy contexts and the sorting strategies *)

\* what the strategy s returns for the arguments of the context operation op
Delegated(op, s, args) ==
    IF op = "process_payment"
    THEN PaymentStrategy_pay(s, args[1]).returned
    ELSE SortStrategy_sort(s, args[1])

\* the step runs a context operation: ValueError and no strategy call when no
\* strategy is set, one call of the strategy that is set otherwise
ExecuteEffect(op, args) ==
    /\ strategy' = strategy
    /\ IF strategy = None
       THEN /\ raised' = "ValueError"
            /\ effects' = <<>>
            /\ result' = None
       ELSE /\ raised' = "none"
            /\ effects' = <<Invoke(strategy,
                                   IF op = "process_payment" THEN "pay" ELSE "sort",
                                   args)>>
            /\ result' = Delegated(op, strategy, args)

\* C14: process_payment and sort_data raise ValueError and call no strategy
\* while no strategy is set; set_strategy(s) makes s the strategy, and from
\* then on the operation calls the strategy set last, once, and returns what
\* it returns.
StrategyRequired ==
    [][ /\ (last'.op = "set_strategy") => (strategy' = last'.args[1])
        /\ (last'.op \in {"process_payment", "sort_data"}) =>
              ExecuteEffect(last'.op, last'.args) ]_vars

\* a payment asked of a new PaymentProcessor: ValueError, nothing paid
UnconfiguredReached ==
    /\ example = "payment_processing"
    /\ strategy = None
    /\ IsCall(last, "process_payment", <<9999>>)
    /\ raised = "ValueError"
    /\ effects = <<>>

\* the number of times x occurs in the list
Occurrences(x, list) == Cardinality({i \in 1..Len(list) : list[i] = x})

\* sorted is a non-descending permutation of data
IsSortedPermutation(sorted, data) ==
    /\ Len(sorted) = Len(data)
    /\ \A x \in Range(data) \cup Range(sorted) :
          Occurrences(x, sorted) = Occurrences(x, data)
    /\ \A i \in 1..(Len(sorted) - 1) : sorted[i] <= sorted[i + 1]

\* C15: for every list of integers (empty, one element, repeated values
\* included) each of the three sorting strategies returns a non-descending
\* permutation of the list, of the same length, so the three agree.
SortsCorrectly ==
    (example = "sorting_algorithms" /\ last.op = "sort_data" /\ raised = "none") =>
        LET data == last.args[1] IN
        /\ IsSortedPermutation(result, data)
        /\ IsSortedPermutation(QuickSortStrategy_sort(data), data)
        /\ IsSortedPermutation(MergeSortStrategy_sort(data), data)
        /\ IsSortedPermutation(BubbleSortStrategy_sort(data), data)
        /\ QuickSortStrategy_sort(data) = MergeSortStrategy_sort(data)
        /\ MergeSortStrategy_sort(data) = BubbleSortStrategy_sort(data)

\* the test data of the script, sorted by merge sort
TestDataSortedReached ==
    /\ strategy = "MergeSortStrategy"
    /\ IsCall(last, "sort_data", <<TestData>>)
    /\ result = <<5, 11, 12, 22, 25, 34, 50, 64, 77, 90>>

\* a list with a repeated value, sorted by bubble sort
RepeatedValueSortedReached ==
    /\ strategy = "BubbleSortStrategy"
    /\ IsCall(last, "sort_data", <<<<2, -1, 2, 0>>>>)
    /\ result = <<-1, 0, 2, 2>>


----------------------------------------------------------------------------
(* Properties of the decorator chains *)

\* number of decorators of the given class in the beverage
RECURSIVE CountAddOns(_, _)
CountAddOns(b, class) ==
    IF b = <<>> THEN 0
    ELSE (IF Head(b).class = class THEN 1 ELSE 0) + CountAddOns(Tail(b), class)

\* teaspoons of sugar over the whole beverage
RECURSIVE TotalTeaspoons(_)
TotalTeaspoons(b) ==
    IF b = <<>> THEN 0
    ELSE (IF Head(b).class = "SugarDecorator" THEN Head(b).teaspoons ELSE 0)
            + TotalTeaspoons(Tail(b))

\* the add-on labels read from the innermost decorator outwards
RECURSIVE LabelsFrom(_, _)
LabelsFrom(b, i) ==
    IF i > Len(b) THEN ""
    ELSE (CASE b[i].class = "MilkDecorator" -> ", Milk"
            [] b[i].class = "SugarDecorator" ->
                    ", " \o ToString(b[i].teaspoons) \o " tsp Sugar"
            [] b[i].class = "WhipDecorator" -> ", Whipped Cream"
            [] b[i].class = "CaramelDecorator" -> ", Caramel")
         \o LabelsFrom(b, i + 1)

\* the cost is 2.50 plus 0.50 a milk, 0.10 a teaspoon, 0.75 a whip, 0.60 a caramel
CostIsSum ==
    get_cost(beverage) =
        250 + 50 * CountAddOns(beverage, "MilkDecorator")
            + 10 * TotalTeaspoons(beverage)
            + 75 * CountAddOns(beverage, "WhipDecorator")
            + 60 * CountAddOns(beverage, "CaramelDecorator")

\* the description is "Espresso" and then the labels in construction order
DescriptionInOrder ==
    get_description(beverage) = "Espresso" \o LabelsFrom(beverage, 1)

\* the queries return what the functions compute
QueriesReturn ==
    /\ last.op = "get_cost" => result = get_cost(beverage)
    /\ last.op = "get_description" => result = get_description(beverage)

\* the beverage of the script: SugarDecorator(MilkDecorator(Espresso()), 2)
Coffee2 == <<Decorator("MilkDecorator", 0), Decorator("SugarDecorator", 2)>>

\* a wrap adds one decorator; cost does not shrink, the description gets longer
WrapGrows ==
    beverage' # beverage =>
        /\ Wrapped(beverage') = beverage
        /\ get_cost(beverage') >= get_cost(beverage)
        /\ (CostAdded(Outermost(beverage')) > 0 => get_cost(beverage') > get_cost(beverage))
        /\ Len(get_description(beverage')) > Len(get_description(beverage))

\* C16: the cost of a decorated Espresso is 2.50 plus the increments of its
\* add-ons (Milk 0.50, Sugar 0.10 a teaspoon, Whip 0.75, Caramel 0.60), its
\* description is "Espresso" followed by the add-on labels innermost first,
\* every further wrap keeps or raises the cost and lengthens the description,
\* and Espresso + Milk + Sugar(2) costs 3.20 and reads
\* "Espresso, Milk, 2 tsp Sugar".
DecoratedBeverage ==
    [][/\ CostIsSum' /\ DescriptionInOrder' /\ QueriesReturn'
       /\ WrapGrows
       /\ (beverage' = Coffee2 =>
              /\ get_cost(beverage') = 320
              /\ get_description(beverage') = "Espresso, Milk, 2 tsp Sugar")]_vars

\* the script's second coffee has been built and asked for its description
Coffee2Reached ==
    /\ beverage = Coffee2
    /\ last.op = "get_description"
    /\ result = "Espresso, Milk, 2 tsp Sugar"

\* a beverage of three decorators with sugar under another add-on was priced
ThreeAddOnsPricedReached ==
    /\ Len(beverage) = MaxWraps
    /\ beverage[1].class = "SugarDecorator" /\ beverage[1].teaspoons > 1
    /\ beverage[2].class # "SugarDecorator"
    /\ last.op = "get_cost"
    /\ result = get_cost(beverage)

\* the request of the most recent handle_request call
Request == last.args[1]

\* how often layer k was called by the middleware wrapping it
Delegations(k) == Cardinality({i \in 1..Len(effects) : effects[i].object = k})

\* layer k ran: it is the handler that was called, or a middleware called it
LayerRan(k) == k = Len(handler) \/ Delegations(k) >= 1

\* the positions of the lines printed by layer k with text msg
LinesOf(k, msg) == {i \in 1..Len(out) : out[i].layer = k /\ out[i].msg = msg}

\* nothing below layer k ran
NothingBelow(k) ==
    /\ \A j \in 0..(k - 1) : Delegations(j) = 0
    /\ \A i \in 1..Len(out) : out[i].layer >= k

\* the AuthMiddleware at layer k blocked or passed the request on once
AuthShortCircuits(k) ==
    IF "is_authenticated" \in DOMAIN Request /\ Request.is_authenticated
    THEN Delegations(k - 1) = 1
    ELSE /\ NothingBelow(k)
         /\ Cardinality(LinesOf(k, "  -> Response generated: 401 Unauthorized")) = 1

\* the LoggingMiddleware at layer k passed the request on once, between its logs
LoggingBrackets(k) ==
    /\ Delegations(k - 1) = 1
    /\ \E i \in LinesOf(k, "[LOG] Incoming request: ") :
       \E j \in LinesOf(k, "[LOG] Request finished for: ") :
          /\ LinesOf(k, "[LOG] Incoming request: ") = {i}
          /\ LinesOf(k, "[LOG] Request finished for: ") = {j}
          /\ \A n \in 1..Len(out) : out[n].layer < k => i < n /\ n < j

\* C17: an AuthMiddleware that is reached does not delegate at all when the
\* request's is_authenticated is missing or false (nothing below it runs, and
\* it prints the 401 response) and delegates exactly once when it is true; a
\* LoggingMiddleware that is reached delegates exactly once, with its
\* incoming log before and its finished log after everything the wrapped
\* handler does; a layer that is not reached prints nothing.
MiddlewareDelegation ==
    last.op = "handle_request" =>
        \A k \in 1..Len(handler) :
            /\ Delegations(k) <= 1
            /\ LayerRan(k) /\ handler[k] = "AuthMiddleware" => AuthShortCircuits(k)
            /\ LayerRan(k) /\ handler[k] = "LoggingMiddleware" => LoggingBrackets(k)
            /\ ~LayerRan(k) => \A i \in 1..Len(out) : out[i].layer # k

\* the script's secure_app has blocked the request of the user "hacker"
AuthBlockedReached ==
    /\ handler = <<"LoggingMiddleware", "AuthMiddleware">>
    /\ last.op = "handle_request"
    /\ Request.user = "hacker"
    /\ "is_authenticated" \in DOMAIN Request /\ ~Request.is_authenticated
    /\ effects = <<>>
    /\ Len(out) = 2

\* a logged, authenticated request went through all three layers to the core
LoggedThroughReached ==
    /\ handler = <<"LoggingMiddleware", "AuthMiddleware", "LoggingMiddleware">>
    /\ last.op = "handle_request"
    /\ Len(effects) = MaxLayers
    /\ \E i \in 1..Len(out) : out[i].layer = 0

\* a request without the key was blocked under a logging layer
MissingKeyBlockedReached ==
    /\ handler = <<"LoggingMiddleware", "AuthMiddleware", "LoggingMiddleware">>
    /\ last.op = "handle_request"
    /\ "is_authenticated" \notin DOMAIN Request
    /\ Len(effects) = 1

----------------------------------------------------------------------------
(* Properties of the adapters *)

\* the tag is `lower` up to the case of its letters
EqualIgnoringCase(tag, lower, upper) ==
    /\ Len(tag) = Len(lower)
    /\ \A i \in 1..Len(lower) : tag[i] \in {lower[i], upper[i]}

\* the calls made on the three adaptees
AdapteeCalls ==
    SelectSeq(effects, LAMBDA e : e.method \in {"play_mp3", "play_mp4", "play_vlc"})

\* the call played the file on one adaptee and returned that player's result
PlayedOn(player, method, prefix) ==
    /\ raised = "none"
    /\ AdapteeCalls = <<Invoke(player, method, <<last.args[2]>>)>>
    /\ result = prefix \o last.args[2]
    /\ Len(out) = 1

\* the call raised ValueError naming the tag and nothing was played
RejectedTag ==
    /\ raised = "ValueError"
    /\ message = Text("Invalid media type: ", last.args[1])
    /\ effects = <<>>
    /\ out = <<>>
    /\ result = None

\* C18: AudioPlayer.play with a tag that is mp3, mp4 or vlc in any letter case
\* calls play_mp3, play_mp4 or play_vlc respectively, once, with the file
\* name, calls no other adaptee and returns that call's result; with any
\* other tag it raises ValueError naming the tag, calls no adaptee and
\* prints nothing.
PlayDispatch ==
    last.op = "play" =>
        CASE EqualIgnoringCase(last.args[1], <<"m", "p", "3">>, <<"M", "P", "3">>) ->
                PlayedOn("Mp3Player", "play_mp3", "MP3: ")
          [] EqualIgnoringCase(last.args[1], <<"m", "p", "4">>, <<"M", "P", "4">>) ->
                PlayedOn("Mp4Player", "play_mp4", "MP4: ")
          [] EqualIgnoringCase(last.args[1], <<"v", "l", "c">>, <<"V", "L", "C">>) ->
                PlayedOn("VlcPlayer", "play_vlc", "VLC: ")
          [] OTHER -> RejectedTag

\* a tag in mixed case was played on the VLC player
MixedCasePlayedReached ==
    /\ IsCall(last, "play", <<(<<"V", "l", "C">>), "song.mp3">>)
    /\ result = "VLC: song.mp3"
    /\ raised = "none"

\* the script's unsupported format was rejected
AviRejectedReached ==
    /\ IsCall(last, "play", <<(<<"a", "v", "i">>), "video.avi">>)
    /\ raised = "ValueError"
    /\ effects = <<>>

\* the amount and the currency the client passed to process_payment
PaidAmount == last.args[1]
PaidCurrency == last.args[2]

\* the cents of the amount the client passed
PaidCents == CHOOSE c \in PaymentCents : Dollars(c) = PaidAmount

\* the result has the uniform fields and carries the payment unchanged
SamePayment ==
    /\ DOMAIN result = {"transaction_id", "amount", "currency", "status", "gateway"}
    /\ result.amount = PaidAmount
    /\ result.currency = PaidCurrency

\* C19: for every amount of a whole number of cents and every currency,
\* StripeAdapter.process_payment and SquareAdapter.process_payment hand the
\* adaptee 100 times the dollar amount as cents, and all three adapters
\* return the amount and the currency passed in under the fields
\* transaction_id, amount, currency, status, gateway.
GatewayKeepsPayment ==
    last.op = "process_payment" =>
        /\ raised = "none"
        /\ SamePayment
        /\ client_call.object = "StripeAdapter" =>
              effects = <<Invoke("StripeAPI", "charge", <<PaidCents, PaidCurrency>>)>>
        /\ client_call.object = "SquareAdapter" =>
              effects = <<Invoke("SquareAPI", "create_payment",
                                 <<[amount |-> PaidCents, currency |-> PaidCurrency]>>)>>
        /\ client_call.object = "PayPalAdapter" =>
              effects = <<Invoke("PayPalAPI", "make_payment", <<PaidAmount, PaidCurrency>>)>>

\* the adapters keep the payment whenever amount * 100 is not below the cents
GatewayKeepsExactProducts ==
    last.op = "process_payment" /\ FloatInt(FloatTimes(PaidAmount, 100)) = PaidCents
        => GatewayKeepsPayment

\* the payments of the script went through unchanged
ScriptPaymentReached ==
    /\ last.op = "process_payment"
    /\ client_call.object = "StripeAdapter"
    /\ PaidAmount = Dollars(9999)
    /\ result.amount = Dollars(9999)

\* a payment of 0.29 was charged as 28 cents
CentLostReached ==
    /\ last.op = "process_payment"
    /\ client_call.object = "StripeAdapter"
    /\ PaidAmount = Dollars(29)
    /\ result.amount = Dollars(28)

----------------------------------------------------------------------------
(* Properties of the factories *)

\* the family of each concrete class
WindowsFamily == {"WindowsFactory", "WindowsButton", "WindowsDialog", "WindowsMenu"}
MacOSFamily == {"MacOSFactory", "MacOSButton", "MacOSDialog", "MacOSMenu"}
LinuxFamily == {"LinuxFactory", "LinuxButton", "LinuxDialog", "LinuxMenu"}

\* the family a key of the enum stands for
FamilyOf(os_type) ==
    CASE os_type = "OS.WINDOWS" -> WindowsFamily
      [] os_type = "OS.MACOS" -> MacOSFamily
      [] os_type = "OS.LINUX" -> LinuxFamily

\* the factory found for the key is of the key's family and is a factory
ResolvedFor(os_type, factory) ==
    /\ factory \in FamilyOf(os_type)
    /\ factory \in DOMAIN UIFactory_create

\* the lookup of a mapped key returned its family's factory, that of any
\* other key raised ValueError and returned nothing; no object changed
LookupEffect ==
    /\ last'.op = "get_ui_factory"
    /\ UNCHANGED apps
    /\ IF last'.args[1] \in OS
       THEN raised' = "none" /\ ResolvedFor(last'.args[1], result')
       ELSE raised' = "ValueError" /\ result' = None

\* an Application was built on its key's factory, or not built for a bad key
BuildEffect ==
    /\ last'.op = "Application"
    /\ IF last'.args[1] \in OS
       THEN /\ raised' = "none"
            /\ Len(apps') = Len(apps) + 1
            /\ ResolvedFor(last'.args[1], apps'[Len(apps')].factory)
       ELSE raised' = "ValueError" /\ apps' = apps

\* the products an application holds are of the family of its factory
OneFamily(app) ==
    \E family \in {WindowsFamily, MacOSFamily, LinuxFamily} :
        /\ app.factory \in family
        /\ \A product \in {app.button, app.dialog, app.menu} :
              product = None \/ product \in family

\* a step that is not a lookup or a build leaves every factory as it is,
\* and create_ui fills in all three products
UseEffect ==
    /\ last'.op \in {"create_ui", "render_ui", "interact"}
    /\ Len(apps') = Len(apps)
    /\ \A i \in 1..Len(apps) : apps'[i].factory = apps[i].factory
    /\ last'.op = "create_ui" =>
          LET app == apps'[last'.args[1]]
          IN  None \notin {app.button, app.dialog, app.menu}

\* C20: get_ui_factory returns, for each of OS.WINDOWS, OS.MACOS, OS.LINUX and
\* in every state, a factory of that key's family and changes nothing; for a
\* key that is not one of the three it raises ValueError and returns no
\* factory; the button, dialog and menu an Application creates all belong to
\* the family of its factory.
FactoryLookup ==
    [][/\ (LookupEffect \/ BuildEffect \/ UseEffect)
       /\ \A i \in 1..Len(apps') : OneFamily(apps'[i])]_vars

\* a Windows and a macOS application both hold their own family's products
TwoFamiliesReached ==
    /\ Len(apps) = 2
    /\ apps[1].button = "WindowsButton" /\ apps[1].menu = "WindowsMenu"
    /\ apps[2].factory = "MacOSFactory" /\ apps[2].dialog = "MacOSDialog"
    /\ IsCall(last, "get_ui_factory", <<"OS.LINUX">>)
    /\ result = "LinuxFactory"

\* the value of an enum member is not a key of the lookup
UnmappedKeyReached ==
    /\ IsCall(last, "get_ui_factory", <<"windows">>)
    /\ raised = "ValueError"
    /\ result = None

----------------------------------------------------------------------------
(* Properties of the composites *)

\* the number of entries of all child lists equal to item
RECURSIVE Holdings(_, _)
Holdings(item, composites) ==
    IF composites = {} THEN 0
    ELSE LET c == CHOOSE x \in composites : TRUE
         IN  Occurrences(item, children[c]) + Holdings(item, composites \ {c})

\* the components met within n steps down from the components of set
RECURSIVE Below(_, _)
Below(set, n) ==
    IF n = 0 THEN {}
    ELSE LET direct == UNION {Range(children[c]) : c \in set \cap Composites}
         IN  direct \cup Below(direct, n - 1)

\* the components held by composite, at any depth
Descendants(composite) == Below({composite}, Cardinality(Composites) + 1)

\* the sum of the values of the leaves of set
RECURSIVE LeafSum(_, _)
LeafSum(method, set) ==
    IF set = {} THEN 0
    ELSE LET l == CHOOSE x \in set : TRUE
         IN  Leaf_get(method, l) + LeafSum(method, set \ {l})

\* the sum of the query over the entries of list, from entry i on
RECURSIVE DirectSum(_, _, _)
DirectSum(method, list, i) ==
    IF i > Len(list) THEN 0
    ELSE Component_get(method, children, list[i], RecursionLimit).returned
         + DirectSum(method, list, i + 1)

\* the query on composite returns the sum over its direct children, which is
\* the sum over the leaves it holds at any depth
Aggregates(method, composite) ==
    LET got == Composite_get(method, children, composite, RecursionLimit)
    IN  /\ got.raised = "none"
        /\ \A i \in 1..Len(children[composite]) :
              Component_get(method, children, children[composite][i],
                            RecursionLimit).raised = "none"
        /\ got.returned = DirectSum(method, children[composite], 1)
        /\ got.returned = LeafSum(method, Descendants(composite) \cap Leaves)

\* the queries of the example
Queries ==
    IF example = "organization_chart" THEN {"get_salary", "get_employee_count"}
    ELSE {"get_size"}

\* C21: after any sequence of add and remove calls, Folder.get_size is the
\* sum of get_size over the folder's direct children, which is the sum of
\* the sizes of all File descendants at any depth (0 for an empty folder),
\* and File.get_size is the file's own size; likewise Department.get_salary
\* and get_employee_count are the sum of the salaries and the number of the
\* Employee descendants, an Employee counting as 1 with its own salary; a
\* query made after add and remove answers for the current children.
AggregatesConsistent ==
    example \in {"file_system", "organization_chart"} =>
        /\ \A composite \in Composites, method \in Queries :
              Aggregates(method, composite)
        /\ \A leaf \in Leaves, method \in Queries :
              Component_get(method, children, leaf, RecursionLimit).returned
                  = Leaf_get(method, leaf)
        /\ last.op \in Queries =>
              /\ raised = "none"
              /\ result = Component_get(last.op, children, last.args[1],
                                        RecursionLimit).returned
              /\ last.args[1] \in Composites =>
                    result = LeafSum(last.op, Descendants(last.args[1]) \cap Leaves)

\* C22: after any sequence of add and remove calls every node is at most
\* once in at most one composite's child list, and no node holds itself: the
\* structure is a tree without shared sub-trees.
OwnershipExclusive ==
    example \in {"file_system", "organization_chart"} =>
        /\ \A item \in Components : Holdings(item, Composites) <= 1
        /\ \A composite \in Composites : composite \notin Descendants(composite)

----------------------------------------------------------------------------
(* Properties of the template methods *)

\* the step calls the most recent call made, without the name look-ups
StepsMade ==
    SelectSeq(effects, LAMBDA e : e.method \notin {"get_name", "get_project_name"})

\* the methods of a list of calls
Methods(made) == [i \in 1..Len(made) |-> made[i].method]

\* the lines the step prints on an object of class
StepLines(class, method) ==
    IF method \in DOMAIN ClassBody(class)
    THEN ClassBody(class)[method].printed
    ELSE ClassBody(BaseClass(class))[method].printed

RecipeSteps == <<"boil_water", "brew", "pour_in_cup", "add_condiments">>

BuildSteps == <<"fetch_dependencies", "compile", "run_tests", "package", "deploy">>

\* the lines of the steps, in the order of the list
RECURSIVE LinesInOrder(_, _)
LinesInOrder(class, steps) ==
    IF steps = <<>> THEN <<>>
    ELSE StepLines(class, Head(steps)) \o LinesInOrder(class, Tail(steps))

\* C23: prepare_recipe runs boil_water, brew, pour_in_cup, add_condiments
\* once each in that order for Coffee, Tea, Soup and Latte, and build runs
\* fetch_dependencies, compile, run_tests, package, deploy once each in that
\* order for Java, Python, JavaScript and Docker; a variant's override
\* changes the lines of its step only, never the order or number of steps.
StepOrderFixed ==
    /\ last.op = "prepare_recipe" =>
          /\ raised = "none"
          /\ Methods(StepsMade) = RecipeSteps
          /\ \A i \in 1..Len(StepsMade) :
                StepsMade[i].object \in {last.args[1], "Recipe"}
          /\ out = <<Text("Preparing {}...", ClassBody(last.args[1]).get_name.returned),
                     Text("{} * 60", "-")>>
                   \o LinesInOrder(last.args[1], RecipeSteps)
                   \o <<Text("{} is ready!", ClassBody(last.args[1]).get_name.returned)>>
    /\ last.op = "build" =>
          /\ raised = "none"
          /\ Methods(StepsMade) = BuildSteps
          /\ \A i \in 1..Len(StepsMade) :
                StepsMade[i].object \in {last.args[1], "BuildProcess"}
          /\ out = <<Text("Building {}...",
                          ClassBody(last.args[1]).get_project_name.returned),
                     Text("{} * 60", "=")>>
                   \o LinesInOrder(last.args[1], BuildSteps)
                   \o <<Text("{} * 60", "="),
                        Text("Build completed for {}!",
                             ClassBody(last.args[1]).get_project_name.returned)>>

\* the soup, which overrides both default steps, after the tea, which
\* overrides none: the same four steps in the same order
SoupAfterTeaReached ==
    /\ runs = <<"TeaRecipe", "SoupRecipe">>
    /\ IsCall(last, "prepare_recipe", <<"SoupRecipe">>)
    /\ StepsMade = <<Invoke("SoupRecipe", "boil_water", <<>>),
                     Invoke("SoupRecipe", "brew", <<>>),
                     Invoke("SoupRecipe", "pour_in_cup", <<>>),
                     Invoke("SoupRecipe", "add_condiments", <<>>)>>
    /\ Plain("3. Pouring soup into bowl...") \in Range(out)

\* the JavaScript build, which overrides deploy
JavaScriptBuiltReached ==
    /\ IsCall(last, "build", <<"JavaScriptBuild">>)
    /\ StepsMade[5] = Invoke("JavaScriptBuild", "deploy", <<>>)
    /\ Plain("5. Deploying to CDN...") \in Range(out)

----------------------------------------------------------------------------
(* Properties of the database connections *)

\* connect has been called on the connection with no close since
Open(connection) == lifecycle[connection] = "connect"

\* the most recent call left every other connection as it was
OthersKept(connection) ==
    \A other \in Connections \ {connection} : connected'[other] = connected[other]

ExecuteQueryEffect(connection) ==
    /\ Open(connection) <=> raised' = "none"
    /\ Open(connection) => result' = Rows(connection) /\ connected'[connection]
    /\ ~Open(connection) =>
          /\ raised' = "ConnectionError"
          /\ message' = "Not connected to database"
          /\ out' = <<>>
          /\ ~connected'[connection]

CloseEffect(connection) ==
    /\ raised' = "none"
    /\ Open(connection) => result' = TRUE /\ ~connected'[connection]
    /\ ~Open(connection) =>
          /\ result' = FALSE
          /\ out' = <<>>
          /\ connected'[connection] = connected[connection]
          /\ ~connected'[connection]

RunQueryEffect(connection, query) ==
    /\ SelectSeq(effects', LAMBDA e : e.method # "get_database_type")
          = <<Invoke(connection, "connect", <<>>),
              Invoke(connection, "execute_query", <<query>>),
              Invoke(connection, "close", <<>>)>>
    /\ ~connected'[connection]

\* C25: for the MySQL, PostgreSQL and MongoDB connections alike,
\* execute_query returns the rows exactly when connect has been called with
\* no close since and otherwise raises ConnectionError and leaves the
\* connection unconnected; close returns True and disconnects when
\* connected and returns False without effect otherwise; run_query calls
\* connect, execute_query, close in that order and leaves the connection
\* closed, whether or not execute_query raised.
ConnectionLifecycle ==
    [][ example = "database_connections" =>
          /\ OthersKept(last'.args[1])
          /\ last'.op = "execute_query" => ExecuteQueryEffect(last'.args[1])
          /\ last'.op = "close" => CloseEffect(last'.args[1])
          /\ last'.op = "run_query" => RunQueryEffect(last'.args[1], last'.args[2])
          /\ last'.op = "connect" => connected'[last'.args[1]] ]_vars

\* connected, closed again, then queried: the query is refused
RefusedAfterCloseReached ==
    /\ IsCall(last, "execute_query", <<"MySQLConnection", "SELECT * FROM users LIMIT 2">>)
    /\ raised = "ConnectionError"
    /\ lifecycle["MySQLConnection"] = "close"
    /\ ~connected["MySQLConnection"]

\* run_query on a connection the client had opened: closed afterwards
RunQueryClosedReached ==
    /\ IsCall(last, "run_query", <<"MongoDBConnection", "db.users.find().limit(2)">>)
    /\ raised = "none"
    /\ ~connected["MongoDBConnection"]
    /\ connected["MySQLConnection"]

============================================================================
